---- MODULE Spec2Model ----
(***************************************************************************)
(* Model of the Nova client launcher core (src/Nova4k.py): platform rule   *)
(* evaluation, checksum-verified artifact acquisition, runtime             *)
(* provisioning, launch-plan construction and the launch request that      *)
(* chains them.                                                            *)
(***************************************************************************)
EXTENDS Integers, Sequences, FiniteSets, TLC

VARIABLES
    \* --- rule evaluator harness ---
    ruleLib,        \* the library dict handed to is_library_allowed: [hasRules, rules]
    ruleOs,         \* the current_os argument of both evaluators
    ruleCalls,      \* which evaluators have returned: subset of {"lib", "arg"}
    libResult,      \* return value of is_library_allowed(ruleLib, ruleOs)
    argResult,      \* return value of evaluate_rules(ruleLib["rules"], ruleOs)
    \* --- direct calls of the helper methods ---
    probe,          \* the helper called and the arguments drawn for it
    probeResults,   \* what the calls made so far returned, in order
    \* --- host ---
    platformSys,    \* platform.system()
    platformArch,   \* platform.architecture()[0]
    systemJava,     \* the java command on the search path: [found, major]
    javaDir,        \* JAVA_DIR/jdk-21.0.5+11: "absent", "dir_only" or "exe"
    localMajor,     \* major version the managed executable reports (0: unparsable)
    failing,        \* the parts of the disk on which the host refuses or cuts short calls
    \* --- application object and widgets ---
    manifest,       \* the document the manifest URL serves
    manifestLoad,   \* how the calls of load_version_manifest ended, in order
    versions,       \* keys of self.versions
    version_categories, \* self.version_categories: category -> list of identifiers
    category_combo, \* category_combo.get()
    version_values, \* version_combo['values']
    selected_version, \* version_combo.get()
    username_input, \* username_input.get()
    cheats,         \* self.cheats: toggle name -> BOOLEAN
    \* --- disk ---
    jsonFile,       \* versions/<id>/<id>.json: "absent", "valid", "corrupt", "empty", "non_object"
    versionData,    \* the document that file holds when it parses
    files,          \* artifact path -> bytes of the file there, or NoFile
    unpacked,       \* regular files unpacked into versions/<id>/natives
    dirs,           \* the directories under MINECRAFT_DIR that exist
    optionsTxt,     \* minecraft/options.txt: [exists, lines]
    \* --- the launch request in progress (prepare_and_launch) ---
    pc,             \* the stage about to run, "idle" outside a request
    dlPhase,        \* position inside download_version_files
    libIndex,       \* index of the library entry about to be processed
    started,        \* stages started in this request, in order
    finished,       \* stages finished in this request: [stage, ok]
    fetched,        \* artifact paths urlretrieve was called on in this acquisition run
    processed,      \* library entries processed in this acquisition run
    jarCheck,       \* what the client JAR block did in this acquisition run
    jsonLoad,       \* what the version JSON block did: [requests, reentries]
    libCheck,       \* library index -> what its artifact block did in this run
    launch_cmd,     \* the argument vector build_launch_command returned
    spawned         \* the argument vector handed to subprocess.Popen

ruleVars == <<ruleLib, ruleOs, ruleCalls, libResult, argResult>>

probeVars == <<probe, probeResults>>

hostVars == <<platformSys, platformArch, systemJava, javaDir, localMajor, failing>>

appVars == <<manifest, manifestLoad, versions, version_categories, category_combo,
             version_values, selected_version,
             username_input, cheats>>

diskVars == <<jsonFile, versionData, files, unpacked, dirs, optionsTxt>>

requestVars == <<pc, dlPhase, libIndex, started, finished, fetched, processed,
                 jarCheck, jsonLoad, libCheck, launch_cmd, spawned>>

vars == <<ruleVars, probeVars, hostVars, appVars, diskVars, requestVars>>

(***************************************************************************)
(* Bounds of the model.                                                    *)
(***************************************************************************)
MaxRules == 3

\* longest version list of a served manifest
MaxEntries == 2

\* number of calls of load_version_manifest on one application object
MaxLoads == 2

\* longest library list of a metadata document handed to the plan builder
MaxLibraries == 2

(***************************************************************************)
(* Rule entries.  A rule is a JSON object with optional keys "action",     *)
(* "os" and "features".  Absent keys are modelled by the value "absent";   *)
(* a "features" key may also be present with the JSON value null.          *)
(***************************************************************************)
OsNames == {"linux", "windows"}

RuleActions == {"allow", "disallow"}

RuleOsValues == {"absent"} \cup OsNames

RuleFeatureValues == {"absent", "null", "set"}

Rules == [action : RuleActions, os : RuleOsValues, features : RuleFeatureValues]

RuleLists == UNION {[1..n -> Rules] : n \in 0..MaxRules}

\* rule.get("os") is None, or a dict whose "name" equals current_os
OsMatch(rule, current_os) ==
    IF rule.os = "absent" THEN TRUE ELSE rule.os = current_os

\* the loop of is_library_allowed from rule number i on, with the running flag
RECURSIVE LibraryRuleLoop(_, _, _, _)
LibraryRuleLoopDisallowResets(rules, i, allow, current_os) ==
    IF i > Len(rules) THEN allow
    ELSE IF rules[i].features # "absent"
         THEN LibraryRuleLoop(rules, i + 1, allow, current_os)
    ELSE IF OsMatch(rules[i], current_os) /\ rules[i].action = "allow"
         THEN LibraryRuleLoop(rules, i + 1, TRUE, current_os)
    ELSE IF OsMatch(rules[i], current_os) /\ rules[i].action = "disallow"
         THEN LibraryRuleLoop(rules, i + 1, FALSE, current_os)
    ELSE LibraryRuleLoop(rules, i + 1, allow, current_os)

LibraryRuleLoop(rules, i, allow, current_os) ==
    IF i > Len(rules) THEN allow
    ELSE IF rules[i].features # "absent"
         THEN LibraryRuleLoop(rules, i + 1, allow, current_os)
    ELSE IF OsMatch(rules[i], current_os) /\ rules[i].action = "allow"
         THEN LibraryRuleLoop(rules, i + 1, TRUE, current_os)
    ELSE IF OsMatch(rules[i], current_os) /\ rules[i].action = "disallow"
         THEN FALSE
    ELSE LibraryRuleLoop(rules, i + 1, allow, current_os)

is_library_allowed(lib, current_os) ==
    IF ~lib.hasRules THEN TRUE
    ELSE LibraryRuleLoop(lib.rules, 1, FALSE, current_os)

\* the loop of evaluate_rules: a rule is skipped when rule.get("features")
\* is not None, so a "features" key holding null does not skip the rule
RECURSIVE ArgumentRuleLoop(_, _, _, _)
ArgumentRuleLoopFeatureMatches(rules, i, allow, current_os) ==
    IF i > Len(rules) THEN allow
    ELSE IF OsMatch(rules[i], current_os) /\ rules[i].action = "allow"
         THEN ArgumentRuleLoop(rules, i + 1, TRUE, current_os)
    ELSE IF OsMatch(rules[i], current_os) /\ rules[i].action = "disallow"
         THEN FALSE
    ELSE ArgumentRuleLoop(rules, i + 1, allow, current_os)

ArgumentRuleLoop(rules, i, allow, current_os) ==
    IF i > Len(rules) THEN allow
    ELSE IF rules[i].features = "set"
         THEN ArgumentRuleLoop(rules, i + 1, allow, current_os)
    ELSE IF OsMatch(rules[i], current_os) /\ rules[i].action = "allow"
         THEN ArgumentRuleLoop(rules, i + 1, TRUE, current_os)
    ELSE IF OsMatch(rules[i], current_os) /\ rules[i].action = "disallow"
         THEN FALSE
    ELSE ArgumentRuleLoop(rules, i + 1, allow, current_os)

\* rules is the Python value: a list, or anything else (isList = FALSE)
evaluate_rules(isList, rules, current_os) ==
    IF ~isList \/ Len(rules) = 0 THEN TRUE
    ELSE ArgumentRuleLoop(rules, 1, FALSE, current_os)

(***************************************************************************)
(* Host platform.                                                          *)
(***************************************************************************)
Platforms == {<<"Linux", "64bit">>, <<"Darwin", "64bit">>, <<"Linux", "32bit">>}

SystemJavaStates ==
    { [found |-> FALSE, major |-> 0],      \* no java command on the search path
      [found |-> TRUE,  major |-> 0],      \* version output does not parse
      [found |-> TRUE,  major |-> 17],
      [found |-> TRUE,  major |-> 21] }

\* the ambient runtimes of the hosts on which whole launch requests are
\* explored: none, and one that passes the version check
RequestJavaStates ==
    { [found |-> FALSE, major |-> 0], [found |-> TRUE, major |-> 21] }

\* platform.system().lower(), with "darwin" renamed to "osx"
CurrentOs(system) ==
    IF system = "Darwin" THEN "osx"
    ELSE IF system = "Linux" THEN "linux"
    ELSE "windows"

(***************************************************************************)
(* Content Verifier.  File contents are named byte strings; hexdigest()    *)
(* of a content is the lowercase digest string of that content.            *)
(***************************************************************************)
NoFile == "absent"

\* a file that exists and whose open or read raises
Unreadable == "unreadable"

Sha1Hex(bytes) == "sha1:" \o bytes

\* the same digest spelled with uppercase hex digits, as a document may give it
UpperSha1Hex(bytes) == "SHA1:" \o bytes

verify_fileExistenceOnly(fs, file_path, expected_sha1) ==
    fs[file_path] # NoFile

verify_file(fs, file_path, expected_sha1) ==
    IF fs[file_path] = NoFile THEN FALSE
    ELSE IF fs[file_path] = Unreadable THEN FALSE
    ELSE Sha1Hex(fs[file_path]) = expected_sha1

\* the disk after verify_file: the file is opened for reading only
verify_fileDiskTruncates(fs, file_path) ==
    [fs EXCEPT ![file_path] = IF @ \in {NoFile, Unreadable} THEN @ ELSE ""]

verify_fileDisk(fs, file_path) == fs

(***************************************************************************)
(* The metadata document of the version offered by the manifest.           *)
(***************************************************************************)
VersionId == "v1"

JarPath == "versions/v1/v1.jar"

NativesDir == "versions/v1/natives"

LibraryA ==
    [ name |-> "org.a:a:1.0", hasRules |-> FALSE, rules |-> <<>>,
      hasArtifact |-> TRUE,
      artifact |-> [path |-> "libraries/org/a/a.jar", sha1 |-> Sha1Hex("a-bytes")],
      natives |-> {}, classifiers |-> {},
      nativePath |-> "", nativeSha1 |-> "", members |-> {}, missing |-> {} ]

LibraryB ==
    [ name |-> "org.b:b:2.0", hasRules |-> TRUE,
      rules |-> <<[action |-> "allow", os |-> "linux", features |-> "absent"]>>,
      hasArtifact |-> TRUE,
      artifact |-> [path |-> "libraries/org/b/b.jar", sha1 |-> Sha1Hex("b-bytes")],
      natives |-> {"linux"}, classifiers |-> {"natives-linux"},
      nativePath |-> "versions/v1/natives/2.0-natives-linux.jar",
      nativeSha1 |-> Sha1Hex("b-natives-bytes"),
      members |-> { [filename |-> "libb.so", is_dir |-> FALSE],
                    [filename |-> "META-INF/", is_dir |-> TRUE] },
      missing |-> {} ]

\* a library entry without downloads.artifact
LibraryN ==
    [ name |-> "org.n:n:3.0", hasRules |-> FALSE, rules |-> <<>>,
      hasArtifact |-> FALSE,
      artifact |-> [path |-> "", sha1 |-> ""],
      natives |-> {}, classifiers |-> {},
      nativePath |-> "", nativeSha1 |-> "", members |-> {}, missing |-> {} ]

VersionDoc ==
    [ mainClass |-> "net.minecraft.client.main.Main",
      client |-> [sha1 |-> Sha1Hex("client-bytes")],
      libraries |-> <<LibraryA, LibraryB>>,
      hasJvm |-> TRUE,
      jvm |-> << [isStr |-> FALSE, token |-> <<>>,
                  rules |-> <<[action |-> "allow", os |-> "osx", features |-> "absent"]>>,
                  value |-> << <<"-XstartOnFirstThread">> >>],
                 [isStr |-> TRUE, token |-> <<"-Djava.library.path=", "${natives_directory}">>,
                  rules |-> <<>>, value |-> <<>>],
                 [isStr |-> TRUE, token |-> <<"-cp">>, rules |-> <<>>, value |-> <<>>],
                 [isStr |-> TRUE, token |-> <<"${classpath}">>,
                  rules |-> <<>>, value |-> <<>>] >>,
      hasGame |-> TRUE,
      game |-> << [isStr |-> TRUE, token |-> <<"--username">>,
                   rules |-> <<>>, value |-> <<>>],
                  [isStr |-> TRUE, token |-> <<"${auth_player_name}">>,
                   rules |-> <<>>, value |-> <<>>],
                  [isStr |-> TRUE, token |-> <<"--version">>,
                   rules |-> <<>>, value |-> <<>>],
                  [isStr |-> TRUE, token |-> <<"${version_name}">>,
                   rules |-> <<>>, value |-> <<>>],
                  [isStr |-> FALSE, token |-> <<>>,
                   rules |-> <<[action |-> "allow", os |-> "absent", features |-> "set"]>>,
                   value |-> << <<"--demo">> >>] >>,
      hasLegacy |-> FALSE,
      minecraftArguments |-> <<>>,
      hasAssetIndex |-> TRUE,
      assetIndex |-> "17",
      type |-> "release" ]

ArtifactPaths ==
    {JarPath} \cup {VersionDoc.libraries[i].artifact.path : i \in 1..Len(VersionDoc.libraries)}
              \cup {VersionDoc.libraries[i].nativePath :
                        i \in {j \in 1..Len(VersionDoc.libraries) :
                                   VersionDoc.libraries[j].natives # {}}}

\* the digest the metadata document gives for the artifact stored at a path
ExpectedSha1(path) ==
    IF path = JarPath THEN VersionDoc.client.sha1
    ELSE LET i == CHOOSE j \in 1..Len(VersionDoc.libraries) :
                      path \in {VersionDoc.libraries[j].artifact.path,
                                VersionDoc.libraries[j].nativePath}
         IN IF path = VersionDoc.libraries[i].artifact.path
            THEN VersionDoc.libraries[i].artifact.sha1
            ELSE VersionDoc.libraries[i].nativeSha1

(***************************************************************************)
(* The network.  One urlretrieve call either raises before the target file *)
(* is opened, raises after part of the body was written, or writes the     *)
(* whole body the server sent, which is the published content or not.      *)
(***************************************************************************)
DownloadOutcomes == {"refused", "interrupted", "overstated", "published", "different"}

\* urlretrieve raises: the request fails, the transfer breaks off, or the
\* whole body arrives under a larger Content-Length (ContentTooShortError)
Raised(outcome) == outcome \in {"refused", "interrupted", "overstated"}

\* the bytes whose digest the metadata document publishes for the path
PublishedBytes(path) ==
    IF path = JarPath THEN "client-bytes"
    ELSE IF path = LibraryA.artifact.path THEN "a-bytes"
    ELSE IF path = LibraryB.artifact.path THEN "b-bytes"
    ELSE "b-natives-bytes"

urlretrieve(fs, path, outcome) ==
    IF outcome = "refused" THEN fs
    ELSE IF outcome = "interrupted" THEN [fs EXCEPT ![path] = "truncated"]
    ELSE IF outcome \in {"overstated", "published"}
    THEN [fs EXCEPT ![path] = PublishedBytes(path)]
    ELSE [fs EXCEPT ![path] = "different-bytes"]

\* os.remove(path) of a file that exists: the host unlinks it, or refuses
\* (the directory is read-only, or another process holds the file open) and
\* the call raises with the file left as it was
RemoveOutcomes == {"removed", "refused"}

os_remove(fs, path, removal) ==
    IF removal = "refused" THEN [fs |-> fs, raised |-> TRUE]
    ELSE [fs |-> [fs EXCEPT ![path] = NoFile], raised |-> FALSE]

\* The parts of the disk fail on their own: "store" is the artifact store
\* (versions/ and libraries/), "options" is options.txt.  On a part that
\* fails (read-only directories, a full disk, a size limit) the host can
\* refuse a removal, a creation or the opening of a file, and cut a write
\* short; on the rest of the disk these calls go through.
\* os.remove is reached only after a whole body with another digest
RemovalsAfter(outcome, faulty) ==
    IF outcome = "different" /\ faulty THEN RemoveOutcomes ELSE {"removed"}

\* os.path.dirname(path): the text before the last separator
dirname(path) ==
    LET seps == {k \in 1..Len(path) : SubSeq(path, k, k) = "/"}
        last == CHOOSE k \in seps : \A j \in seps : j <= k
    IN  IF seps = {} THEN "" ELSE SubSeq(path, 1, last - 1)

\* the directories download_version_files creates
VersionDir == "versions/v1"

LibrariesDir == "libraries"

\* os.makedirs(path, exist_ok=True): nothing happens to a directory that is
\* there; one that is not is created, or the host refuses (the parent is
\* read-only, the disk is full) and the call raises
MakedirsOutcomes == {"created", "refused"}

makedirs(ds, path, creation) ==
    IF path \in ds THEN [dirs |-> ds, raised |-> FALSE]
    ELSE IF creation = "refused" THEN [dirs |-> ds, raised |-> TRUE]
    ELSE [dirs |-> ds \cup {path}, raised |-> FALSE]

\* the directories there must be for the version JSON and the files of a disk
DirsOf(json, fs) ==
    LET holding == {dirname(p) : p \in {q \in DOMAIN fs : fs[q] # NoFile}}
    IN  holding
        \cup (IF json # "absent" \/ holding \cap {VersionDir, NativesDir} # {}
              THEN {VersionDir} ELSE {})
        \cup (IF holding \ {VersionDir, NativesDir} # {} THEN {LibrariesDir} ELSE {})

(***************************************************************************)
(* Artifact Acquisition: the blocks of download_version_files.             *)
(***************************************************************************)
JsonOutcomes ==
    {"fetch_failed", "malformed", "write_failed", "empty_document", "non_object_document",
     "document"}

\* the fetch of a missing version JSON: the answer is parsed, then the file is
\* opened for writing and the document dumped into it.  A failing write
\* leaves a file that does not parse; an answer that parses to an empty
\* empty object is stored and then refused by "if not version_data"; so is
\* an answer that parses to something else than an object (null, a list, a
\* number, a string), refused there when it is falsy and otherwise by the
\* AttributeError of version_data.get in the client JAR block, which that
\* block's except clause turns into False before any request
FetchVersionJson(outcome, reentries) ==
    IF outcome = "document"
    THEN [json |-> "valid", ok |-> TRUE, requests |-> 1, reentries |-> reentries]
    ELSE IF outcome = "write_failed"
    THEN [json |-> "corrupt", ok |-> FALSE, requests |-> 1, reentries |-> reentries]
    ELSE IF outcome = "empty_document"
    THEN [json |-> "empty", ok |-> FALSE, requests |-> 1, reentries |-> reentries]
    ELSE IF outcome = "non_object_document"
    THEN [json |-> "non_object", ok |-> FALSE, requests |-> 1, reentries |-> reentries]
    ELSE [json |-> "absent", ok |-> FALSE, requests |-> 1, reentries |-> reentries]

\* the version JSON block: a missing file is fetched, parsed and then written;
\* an existing file is parsed ("empty": it holds an empty object;
\* "non_object": it holds a document that is no object); an
\* existing file that does not parse is removed and download_version_files
\* calls itself; a refused removal raises into the except clause of the
\* block, which returns False.  requests counts the urlopen calls, reentries
\* the calls of the function from within itself.
RECURSIVE LoadVersionJson(_, _, _, _)
LoadVersionJson(json, outcome, removal, reentries) ==
    IF json = "absent"
    THEN FetchVersionJson(outcome, reentries)
    ELSE IF json = "valid"
    THEN [json |-> "valid", ok |-> TRUE, requests |-> 0, reentries |-> reentries]
    ELSE IF json \in {"empty", "non_object"}
    THEN [json |-> json, ok |-> FALSE, requests |-> 0, reentries |-> reentries]
    ELSE IF removal = "refused"
    THEN [json |-> json, ok |-> FALSE, requests |-> 0, reentries |-> reentries]
    ELSE LoadVersionJson("absent", outcome, removal, reentries + 1)

\* the client JAR block; ok = FALSE is the "return False" of the block, and
\* check tells which branch was taken.  A body with another digest is removed
\* and False returned; a refused removal raises into "except Exception",
\* which returns False as well, with the file still there
EnsureClientJar(fs, outcome, removal) ==
    IF ~(fs[JarPath] = NoFile \/ ~verify_file(fs, JarPath, VersionDoc.client.sha1))
    THEN [fs |-> fs, ok |-> TRUE, fetched |-> FALSE, check |-> "cached"]
    ELSE LET after == urlretrieve(fs, JarPath, outcome) IN
         IF Raised(outcome)
         THEN [fs |-> after, ok |-> FALSE, fetched |-> TRUE, check |-> "raised"]
         ELSE IF ~verify_file(after, JarPath, VersionDoc.client.sha1)
         THEN [fs |-> os_remove(after, JarPath, removal).fs, ok |-> FALSE,
               fetched |-> TRUE, check |-> "mismatch"]
         ELSE [fs |-> after, ok |-> TRUE, fetched |-> TRUE, check |-> "verified"]

\* no exception leaves the block
NoException == "none"

\* the keys the loop reads by subscript from downloads.artifact, and from the
\* classifier's descriptor and the entry itself in the natives block
ArtifactKeys == {"artifact.url", "artifact.path", "artifact.sha1"}

NativeKeys == {"native.url", "name", "native.sha1"}

\* the artifact block of one library entry.  The subscripts of the
\* descriptor and the creation of the directory of the file stand before the
\* try of the block: a missing key or a refused creation raises out of the
\* block (raised names the exception).  Inside the try a failure is reported
\* and ignored: the download raises, the file does not verify and is removed,
\* or its removal is refused and the file stays
EnsureLibraryArtifact(fs, ds, lib, creation, outcome, removal) ==
    LET lib_path == lib.artifact.path
        expected_sha1 == lib.artifact.sha1
        made == makedirs(ds, dirname(lib_path), creation)
    IN  IF lib.missing \cap {"artifact.url", "artifact.path"} # {}
        THEN [fs |-> fs, dirs |-> ds, fetched |-> {}, check |-> "key_error",
              raised |-> "KeyError"]
        ELSE IF made.raised
        THEN [fs |-> fs, dirs |-> ds, fetched |-> {}, check |-> "os_error",
              raised |-> "OSError"]
        ELSE IF "artifact.sha1" \in lib.missing
        THEN [fs |-> fs, dirs |-> made.dirs, fetched |-> {}, check |-> "key_error",
              raised |-> "KeyError"]
        ELSE IF ~(fs[lib_path] = NoFile \/ ~verify_file(fs, lib_path, expected_sha1))
        THEN [fs |-> fs, dirs |-> made.dirs, fetched |-> {}, check |-> "cached",
              raised |-> NoException]
        ELSE LET after == urlretrieve(fs, lib_path, outcome) IN
             IF Raised(outcome)
             THEN [fs |-> after, dirs |-> made.dirs, fetched |-> {lib_path},
                   check |-> "raised", raised |-> NoException]
             ELSE IF ~verify_file(after, lib_path, expected_sha1)
             THEN [fs |-> os_remove(after, lib_path, removal).fs, dirs |-> made.dirs,
                   fetched |-> {lib_path}, check |-> "mismatch", raised |-> NoException]
             ELSE [fs |-> after, dirs |-> made.dirs, fetched |-> {lib_path},
                   check |-> "verified", raised |-> NoException]

\* lib["natives"][current_os]; the modelled classifiers hold no ${arch}
Classifier(lib, current_os) == "natives-" \o current_os

\* the members of a bundle that are not directory entries
RegularMembers(lib) == {m.filename : m \in {x \in lib.members : ~x.is_dir}}

\* the natives block of one library entry: the bundle is unpacked only in the
\* branch that downloaded it, and only its regular files are extracted;
\* refused holds the members whose extraction raises.  A bundle that does not
\* verify is removed and not unpacked; a refused removal raises into the
\* except clause of the block and the bundle stays
EnsureNativesIgnoresCache(fs, unp, lib, outcome, removal, refused) ==
    LET native_temp_path == lib.nativePath
        expected_sha1 == lib.nativeSha1
        after == urlretrieve(fs, native_temp_path, outcome)
    IN  IF Raised(outcome)
        THEN [fs |-> after, unpacked |-> unp, fetched |-> {native_temp_path}]
        ELSE IF ~verify_file(after, native_temp_path, expected_sha1)
        THEN [fs |-> os_remove(after, native_temp_path, removal).fs, unpacked |-> unp,
              fetched |-> {native_temp_path}]
        ELSE [fs |-> after,
              unpacked |-> unp \cup (RegularMembers(lib) \ refused),
              fetched |-> {native_temp_path}]

EnsureNatives(fs, unp, lib, outcome, removal, refused) ==
    LET native_temp_path == lib.nativePath
        expected_sha1 == lib.nativeSha1
    IN  IF ~(fs[native_temp_path] = NoFile
             \/ ~verify_file(fs, native_temp_path, expected_sha1))
        THEN [fs |-> fs, unpacked |-> unp, fetched |-> {}]
        ELSE LET after == urlretrieve(fs, native_temp_path, outcome) IN
             IF Raised(outcome)
             THEN [fs |-> after, unpacked |-> unp, fetched |-> {native_temp_path}]
             ELSE IF ~verify_file(after, native_temp_path, expected_sha1)
             THEN [fs |-> os_remove(after, native_temp_path, removal).fs,
                   unpacked |-> unp, fetched |-> {native_temp_path}]
             ELSE [fs |-> after,
                   unpacked |-> unp \cup (RegularMembers(lib) \ refused),
                   fetched |-> {native_temp_path}]

\* what the host does in one round of the loop: the creation of the
\* directory of the artifact, the two downloads, the two removals, and the
\* members of the bundle whose extraction raises
LibraryHosts(lib, faulty) ==
    {h \in [makedirs : IF faulty THEN MakedirsOutcomes ELSE {"created"},
            artifact : DownloadOutcomes, artifactRemoval : RemoveOutcomes,
            native : DownloadOutcomes, nativeRemoval : RemoveOutcomes,
            refused : SUBSET RegularMembers(lib)] :
        /\ h.artifactRemoval \in RemovalsAfter(h.artifact, faulty)
        /\ h.nativeRemoval \in RemovalsAfter(h.native, faulty)}

\* the body of the loop over version_data["libraries"] for one entry; the
\* subscripts of the two descriptors are read outside the try blocks, so a
\* missing key raises KeyError out of the loop, as does a refused creation
\* of the artifact's directory: raised names the exception and the state
\* is the one reached before it
ProcessLibrary(fs, ds, unp, lib, current_os, host) ==
    IF ~is_library_allowed(lib, current_os)
    THEN [fs |-> fs, dirs |-> ds, unpacked |-> unp, fetched |-> {},
          check |-> "not_allowed", raised |-> NoException]
    ELSE LET a == IF lib.hasArtifact
                  THEN EnsureLibraryArtifact(fs, ds, lib, host.makedirs, host.artifact,
                                             host.artifactRemoval)
                  ELSE [fs |-> fs, dirs |-> ds, fetched |-> {}, check |-> "no_artifact",
                        raised |-> NoException]
             nativesApply == /\ current_os \in lib.natives
                             /\ Classifier(lib, current_os) \in lib.classifiers
         IN IF a.raised # NoException
            THEN [fs |-> a.fs, dirs |-> a.dirs, unpacked |-> unp, fetched |-> a.fetched,
                  check |-> a.check, raised |-> a.raised]
            ELSE IF nativesApply /\ lib.missing \cap NativeKeys # {}
            THEN [fs |-> a.fs, dirs |-> a.dirs, unpacked |-> unp, fetched |-> a.fetched,
                  check |-> a.check, raised |-> "KeyError"]
            ELSE LET n == IF nativesApply
                          THEN EnsureNatives(a.fs, unp, lib, host.native,
                                             host.nativeRemoval, host.refused)
                          ELSE [fs |-> a.fs, unpacked |-> unp, fetched |-> {}]
                 IN [fs |-> n.fs, dirs |-> a.dirs, unpacked |-> n.unpacked,
                     fetched |-> a.fetched \cup n.fetched, check |-> a.check,
                     raised |-> NoException]

(***************************************************************************)
(* Runtime Provisioner.                                                    *)
(***************************************************************************)
\* the major version of the managed runtime installs
REQUIRED_JAVA == 21

\* the executables is_java_installed runs with "-version", in order: the
\* managed one if it exists, the ambient one unless the managed version parsed
JavaVersionRuns(dir, local) ==
    IF dir # "exe" THEN <<"ambient">>
    ELSE IF local > 0 THEN <<"managed">>
    ELSE <<"managed", "ambient">>

is_java_installedAmbientOverrides(dir, local, sys, required_version) ==
    IF sys.found /\ sys.major > 0
    THEN sys.major >= required_version
    ELSE dir = "exe" /\ local > 0 /\ local >= required_version

is_java_installed(dir, local, sys, required_version) ==
    IF dir = "exe" /\ local > 0
    THEN local >= required_version
    ELSE sys.found /\ sys.major > 0 /\ sys.major >= required_version

\* the platform/architecture pairs of the distribution table
JavaUrlKnown(system, arch) ==
    system \in {"Windows", "Linux", "Darwin"} /\ arch = "64bit"

\* what the archive served leaves at JAVA_DIR/jdk-21.0.5+11 by the time the
\* extraction ends or breaks off: nothing (the download raised, or the archive
\* has another top directory), the directory without bin/java under it (the
\* layout of the macOS archives), or the executable, whose -version output
\* does not parse (0) or names a major version
ExtractedRuntimes ==
    {[dir |-> "absent", local |-> 0], [dir |-> "dir_only", local |-> 0]}
    \cup {[dir |-> "exe", local |-> m] : m \in {0, 17, REQUIRED_JAVA}}

\* lines 453-476 for one host: something in the try raises (the download, the
\* extraction after any number of members, the removal of the archive) and
\* False is returned, or nothing raises and True is returned whatever the
\* archive held
InstallOutcomes == [raised : BOOLEAN, left : ExtractedRuntimes]

DownloadAndExtract(dir, local, outcome) ==
    [ok |-> ~outcome.raised,
     dir |-> IF outcome.left.dir = "absent" THEN dir ELSE outcome.left.dir,
     local |-> IF outcome.left.dir = "absent" THEN local ELSE outcome.left.local,
     requests |-> 1]

\* install_java_if_needed: [ok, dir, local, requests] for one outcome of the
\* download; requests counts the calls of urlretrieve
install_java_if_neededWithoutPlatformTable(dir, local, sys, system, arch, outcome) ==
    IF is_java_installed(dir, local, sys, REQUIRED_JAVA)
    THEN [ok |-> TRUE, dir |-> dir, local |-> local, requests |-> 0]
    ELSE IF dir # "absent"
    THEN [ok |-> TRUE, dir |-> dir, local |-> local, requests |-> 0]
    ELSE DownloadAndExtract(dir, local, outcome)

install_java_if_needed(dir, local, sys, system, arch, outcome) ==
    IF is_java_installed(dir, local, sys, REQUIRED_JAVA)
    THEN [ok |-> TRUE, dir |-> dir, local |-> local, requests |-> 0]
    ELSE IF ~JavaUrlKnown(system, arch)
    THEN [ok |-> FALSE, dir |-> dir, local |-> local, requests |-> 0]
    ELSE IF dir # "absent"
    THEN [ok |-> TRUE, dir |-> dir, local |-> local, requests |-> 0]
    ELSE DownloadAndExtract(dir, local, outcome)

(***************************************************************************)
(* options.txt rewrite.                                                    *)
(***************************************************************************)
\* str(target_fps) of the call modify_options_txt(target_fps=60)
TARGET_FPS == "60"

\* the pieces of a line that are runs of whitespace (the line end included)
LineSpace == {" ", "\t", "\n"}

\* "".join(pieces)
RECURSIVE Concat(_)
Concat(pieces) ==
    IF Len(pieces) = 0 THEN "" ELSE pieces[1] \o Concat(Tail(pieces))

\* line.strip(): the line without its leading and trailing whitespace
RECURSIVE Strip(_)
Strip(line) ==
    IF Len(line) = 0 THEN line
    ELSE IF line[1] \in LineSpace THEN Strip(Tail(line))
    ELSE IF line[Len(line)] \in LineSpace THEN Strip(SubSeq(line, 1, Len(line) - 1))
    ELSE line

\* text.split(":", 1): one part without a colon, else the text before the
\* first colon and the text after it
SplitColon(line) ==
    IF \A k \in 1..Len(line) : line[k] # ":" THEN <<Concat(line)>>
    ELSE LET c == CHOOSE k \in 1..Len(line) :
                      line[k] = ":" /\ \A j \in 1..(k - 1) : line[j] # ":"
         IN  <<Concat(SubSeq(line, 1, c - 1)), Concat(SubSeq(line, c + 1, Len(line)))>>

RECURSIVE ReadOptions(_, _, _)
\* the dict built from the lines: [keys (in insertion order), value of each key]
ReadOptions(lines, i, options) ==
    IF i > Len(lines) THEN options
    ELSE LET parts == SplitColon(Strip(lines[i])) IN
         IF Len(parts) # 2 THEN ReadOptions(lines, i + 1, options)
         ELSE ReadOptions(lines, i + 1, 
                [keys |-> IF \E k \in 1..Len(options.keys) : options.keys[k] = parts[1]
                          THEN options.keys ELSE Append(options.keys, parts[1]),
                 value |-> [x \in DOMAIN options.value \cup {parts[1]} |->
                              IF x = parts[1] THEN parts[2] ELSE options.value[x]]])

SetOption(options, key, value) ==
    [keys |-> IF \E k \in 1..Len(options.keys) : options.keys[k] = key
              THEN options.keys ELSE Append(options.keys, key),
     value |-> [x \in DOMAIN options.value \cup {key} |->
                  IF x = key THEN value ELSE options.value[x]]]

\* len(text) of the text of a line, and of a whole file
RECURSIVE LineLen(_)
LineLen(line) ==
    IF Len(line) = 0 THEN 0 ELSE Len(line[1]) + LineLen(Tail(line))

RECURSIVE TextLen(_)
TextLen(lines) ==
    IF Len(lines) = 0 THEN 0 ELSE LineLen(lines[1]) + TextLen(Tail(lines))

\* the first n characters of a line that is longer, and of a file
RECURSIVE CutLine(_, _)
CutLine(line, n) ==
    IF n = 0 \/ Len(line) = 0 THEN <<>>
    ELSE IF Len(line[1]) <= n THEN <<line[1]>> \o CutLine(Tail(line), n - Len(line[1]))
    ELSE <<SubSeq(line[1], 1, n)>>

RECURSIVE CutText(_, _)
CutText(lines, n) ==
    IF n = 0 \/ Len(lines) = 0 THEN <<>>
    ELSE IF LineLen(lines[1]) <= n
    THEN <<lines[1]>> \o CutText(Tail(lines), n - LineLen(lines[1]))
    ELSE <<CutLine(lines[1], n)>>

\* the lines modify_options_txt writes when the read raised after `read` lines
RewrittenLines(file, target_fps, read) ==
    LET found == IF file.exists
                 THEN ReadOptions(SubSeq(file.lines, 1, read), 1,
                                  [keys |-> <<>>, value |-> <<>>])
                 ELSE [keys |-> <<>>, value |-> <<>>]
        options == SetOption(SetOption(found, "maxFps", target_fps), "enableVsync", "false")
    IN  [k \in 1..Len(options.keys) |->
            <<options.keys[k], ":", options.value[options.keys[k]], "\n">>]

\* what the host lets modify_options_txt do: read lines of the file are
\* yielded before the read raises (all of them if it does not); opening the
\* file for writing is refused, or it truncates the file and the text then
\* reaches it whole ("written") or only in its first bytes characters
\* ("failed": the disk is full, a size limit is hit)
OptionsOutcomes(file) ==
    UNION {
        {[read |-> r, write |-> w, bytes |-> 0] : w \in {"refused", "written"}}
        \cup {[read |-> r, write |-> "failed", bytes |-> n] :
                  n \in 0..(TextLen(RewrittenLines(file, TARGET_FPS, r)) - 1)} :
        r \in IF file.exists THEN 0..Len(file.lines) ELSE {0}}

\* where options.txt does not fail the file is opened and written whole
OptionsResults(file, faulty) ==
    {o \in OptionsOutcomes(file) : faulty \/ o.write = "written"}

\* modify_options_txt: the file after the call, for one outcome
modify_options_txt(file, target_fps, outcome) ==
    LET text == RewrittenLines(file, target_fps, outcome.read)
    IN  IF outcome.write = "refused" THEN file
        ELSE IF outcome.write = "failed"
        THEN [exists |-> TRUE, lines |-> CutText(text, outcome.bytes)]
        ELSE [exists |-> TRUE, lines |-> text]

(***************************************************************************)
(* Launch Plan Builder.  A token of the argument vector is a sequence of   *)
(* text pieces; a piece is literal text or the text of one placeholder.    *)
(***************************************************************************)
LocalJavaPath == "java/jdk-21.0.5+11/bin/java"

MinecraftDir == "minecraft"

PathSep == ":"

\* int(self.ram_scale.get()) as formatted into the -Xmx flag; the scale's default
RamGb == "4"

DefaultJvmArgs ==
    << <<"-XX:+UseG1GC">>, <<"-XX:-UseAdaptiveSizePolicy">>,
       <<"-XX:MinHeapFreeRatio=3">>, <<"-XX:MaxHeapFreeRatio=9">>,
       <<"-XX:+DisableExplicitGC">>, <<"-XX:+AlwaysPreTouch">>,
       <<"-XX:+UnlockExperimentalVMOptions">>, <<"-XX:+ParallelRefProcEnabled">> >>

\* the library part of the classpath, in the order of the metadata's list
RECURSIVE ClasspathLibrariesReversed(_, _, _, _)
ClasspathLibrariesReversed(fs, libraries, i, current_os) ==
    IF i > Len(libraries) THEN <<>>
    ELSE LET lib == libraries[i]
             rest == ClasspathLibrariesReversed(fs, libraries, i + 1, current_os)
         IN IF is_library_allowed(lib, current_os) /\ lib.hasArtifact
               /\ fs[lib.artifact.path] # NoFile
            THEN rest \o <<lib.artifact.path>>
            ELSE rest

RECURSIVE ClasspathLibrariesIgnoresExistence(_, _, _, _)
ClasspathLibrariesIgnoresExistence(fs, libraries, i, current_os) ==
    IF i > Len(libraries) THEN <<>>
    ELSE LET lib == libraries[i]
             rest == ClasspathLibrariesIgnoresExistence(fs, libraries, i + 1, current_os)
         IN IF is_library_allowed(lib, current_os) /\ lib.hasArtifact
            THEN <<lib.artifact.path>> \o rest
            ELSE rest

RECURSIVE ClasspathLibraries(_, _, _, _)
ClasspathLibraries(fs, libraries, i, current_os) ==
    IF i > Len(libraries) THEN <<>>
    ELSE LET lib == libraries[i]
             rest == ClasspathLibraries(fs, libraries, i + 1, current_os)
         IN IF is_library_allowed(lib, current_os) /\ lib.hasArtifact
               /\ fs[lib.artifact.path] # NoFile
            THEN <<lib.artifact.path>> \o rest
            ELSE rest

\* os.pathsep.join(classpath), as the pieces of one token
RECURSIVE Join(_, _)
Join(paths, sep) ==
    IF Len(paths) = 0 THEN <<>>
    ELSE IF Len(paths) = 1 THEN <<paths[1]>>
    ELSE <<paths[1], sep>> \o Join(Tail(paths), sep)

\* expansion of a templated argument list: literals verbatim, conditional
\* entries through evaluate_rules
RECURSIVE ExpandArguments(_, _, _)
ExpandArguments(entries, i, current_os) ==
    IF i > Len(entries) THEN <<>>
    ELSE LET arg == entries[i]
             rest == ExpandArguments(entries, i + 1, current_os)
         IN IF arg.isStr THEN <<arg.token>> \o rest
            ELSE IF evaluate_rules(TRUE, arg.rules, current_os) THEN arg.value \o rest
            ELSE rest

\* "flag" in " ".join(jvm_args)
JoinedContains(args, flag) ==
    \E i \in 1..Len(args) : \E k \in 1..Len(args[i]) : args[i][k] = flag

JvmArgumentsPreferDefaults(doc, system, current_os) ==
    LET base == IF doc.hasLegacy THEN DefaultJvmArgs
                ELSE IF doc.hasJvm THEN ExpandArguments(doc.jvm, 1, current_os)
                ELSE <<>>
        first == IF system = "Darwin" /\ ~JoinedContains(base, "-XstartOnFirstThread")
                 THEN Append(base, <<"-XstartOnFirstThread">>) ELSE base
    IN  IF system = "Darwin"
           /\ ~JoinedContains(first, "-Dorg.lwjgl.opengl.Display.allowSoftwareOpenGL=true")
        THEN Append(first, <<"-Dorg.lwjgl.opengl.Display.allowSoftwareOpenGL=true">>)
        ELSE first

JvmArguments(doc, system, current_os) ==
    LET base == IF doc.hasJvm THEN ExpandArguments(doc.jvm, 1, current_os)
                ELSE IF doc.hasLegacy THEN DefaultJvmArgs
                ELSE <<>>
        first == IF system = "Darwin" /\ ~JoinedContains(base, "-XstartOnFirstThread")
                 THEN Append(base, <<"-XstartOnFirstThread">>) ELSE base
    IN  IF system = "Darwin"
           /\ ~JoinedContains(first, "-Dorg.lwjgl.opengl.Display.allowSoftwareOpenGL=true")
        THEN Append(first, <<"-Dorg.lwjgl.opengl.Display.allowSoftwareOpenGL=true">>)
        ELSE first

CheatArguments(ch) ==
    (IF ch["killaura"] THEN << <<"-Dnova.killaura=true">> >> ELSE <<>>)
    \o (IF ch["speed"] THEN << <<"-Dnova.speed=true">> >> ELSE <<>>)
    \o (IF ch["fly"] THEN << <<"-Dnova.fly=true">> >> ELSE <<>>)

\* the pieces of a legacy argument string that are runs of whitespace
Whitespace == {" ", "  ", "\t"}

\* str.split(): the maximal runs of pieces that are not whitespace; cur is
\* the token being collected
RECURSIVE SplitWhitespace(_, _, _)
SplitWhitespace(text, i, cur) ==
    IF i > Len(text) THEN (IF cur = <<>> THEN <<>> ELSE <<cur>>)
    ELSE IF text[i] \in Whitespace
         THEN (IF cur = <<>> THEN <<>> ELSE <<cur>>) \o SplitWhitespace(text, i + 1, <<>>)
         ELSE SplitWhitespace(text, i + 1, Append(cur, text[i]))

\* the program arguments before substitution: the templated list, else the
\* legacy string split on whitespace (a document with neither has no plan)
GameArguments(doc, current_os) ==
    IF doc.hasGame THEN ExpandArguments(doc.game, 1, current_os)
    ELSE IF doc.hasLegacy THEN SplitWhitespace(doc.minecraftArguments, 1, <<>>)
    ELSE <<>>

\* hashlib.md5(text).hexdigest(): 32 hex digits, digit i of the digest of a
\* text being named after the text and i
Md5Hex(text) == [i \in 1..32 |-> "#" \o ToString(i) \o "(" \o text \o ")"]

\* seq[a:b]
Slice(seq, a, b) == SubSeq(seq, a + 1, b)

\* the identifier derived from "OfflinePlayer:" + username, as one piece
generate_offline_uuidShortTail(username) ==
    LET md5_hash == Md5Hex("OfflinePlayer:" \o username)
    IN  Concat(Slice(md5_hash, 0, 8) \o <<"-">> \o Slice(md5_hash, 8, 12) \o <<"-">>
               \o Slice(md5_hash, 12, 16) \o <<"-">> \o Slice(md5_hash, 16, 20)
               \o <<"-">> \o Slice(md5_hash, 20, 28))

generate_offline_uuid(username) ==
    LET md5_hash == Md5Hex("OfflinePlayer:" \o username)
    IN  Concat(Slice(md5_hash, 0, 8) \o <<"-">> \o Slice(md5_hash, 8, 12) \o <<"-">>
               \o Slice(md5_hash, 12, 16) \o <<"-">> \o Slice(md5_hash, 16, 20)
               \o <<"-">> \o Slice(md5_hash, 20, Len(md5_hash)))

\* the substitution table, in the order of the dict
Replacements(doc, version, username) ==
    << <<"${auth_player_name}", username>>,
       <<"${version_name}", version>>,
       <<"${game_directory}", MinecraftDir>>,
       <<"${assets_root}", MinecraftDir \o "/assets">>,
       <<"${assets_index_name}", IF doc.hasAssetIndex THEN doc.assetIndex ELSE version>>,
       <<"${auth_uuid}", generate_offline_uuid(username)>>,
       <<"${auth_access_token}", "0">>,
       <<"${user_type}", "legacy">>,
       <<"${version_type}", doc.type>>,
       <<"${user_properties}", "{}">>,
       <<"${quickPlayRealms}", "">>,
       <<"${quickPlaySingleplayer}", "">>,
       <<"${quickPlayMultiplayer}", "">> >>

\* arg.replace(key, value) on the pieces of one token
ReplaceIn(token, key, value) ==
    [k \in 1..Len(token) |-> IF token[k] = key THEN value ELSE token[k]]

RECURSIVE ReplaceAll(_, _, _)
ReplaceAll(token, table, j) ==
    IF j > Len(table) THEN token
    ELSE ReplaceAll(ReplaceIn(token, table[j][1], table[j][2]), table, j + 1)

\* build_launch_command: plan is the argument vector returned, << >> on
\* failure, and raised the exception that leaves the method instead of a
\* result; json and doc are the state and the parsed content of the version
\* JSON file.  A file that parses to something else than an object gets past
\* json.load, and version_data.get("mainClass") raises AttributeError once a
\* runtime was resolved; an empty object has no mainClass
build_launch_commandCheatsFirst(json, doc, fs, dir, local, sys, system, ch, version, username, ram) ==
    LET current_os == CurrentOs(system)
        classpath == ClasspathLibraries(fs, doc.libraries, 1, current_os) \o <<JarPath>>
        java_path == IF dir = "exe" /\ is_java_installed(dir, local, sys, REQUIRED_JAVA)
                     THEN LocalJavaPath ELSE "java"
        game_args == GameArguments(doc, current_os)
        table == Replacements(doc, version, username)
        returns == [plan |-> <<>>, raised |-> NoException]
    IN  IF json \in {"absent", "corrupt"} THEN returns
        ELSE IF ~is_java_installed(dir, local, sys, REQUIRED_JAVA) THEN returns
        ELSE IF json = "non_object" THEN [plan |-> <<>>, raised |-> "AttributeError"]
        ELSE IF json = "empty" \/ doc.mainClass = "" THEN returns
        ELSE IF fs[JarPath] = NoFile THEN returns
        ELSE IF ~doc.hasGame /\ ~doc.hasLegacy THEN returns
        ELSE [returns EXCEPT !.plan =
             << <<java_path>>, <<"-Xmx", ram, "G">>,
                <<"-Djava.library.path=", NativesDir>> >>
             \o CheatArguments(ch)
             \o JvmArguments(doc, system, current_os)
             \o << <<"-cp">>, Join(classpath, PathSep), <<doc.mainClass>> >>
             \o [k \in 1..Len(game_args) |-> ReplaceAll(game_args[k], table, 1)]]

build_launch_command(json, doc, fs, dir, local, sys, system, ch, version, username, ram) ==
    LET current_os == CurrentOs(system)
        classpath == ClasspathLibraries(fs, doc.libraries, 1, current_os) \o <<JarPath>>
        java_path == IF dir = "exe" /\ is_java_installed(dir, local, sys, REQUIRED_JAVA)
                     THEN LocalJavaPath ELSE "java"
        game_args == GameArguments(doc, current_os)
        table == Replacements(doc, version, username)
        returns == [plan |-> <<>>, raised |-> NoException]
    IN  IF json \in {"absent", "corrupt"} THEN returns
        ELSE IF ~is_java_installed(dir, local, sys, REQUIRED_JAVA) THEN returns
        ELSE IF json = "non_object" THEN [plan |-> <<>>, raised |-> "AttributeError"]
        ELSE IF json = "empty" \/ doc.mainClass = "" THEN returns
        ELSE IF fs[JarPath] = NoFile THEN returns
        ELSE IF ~doc.hasGame /\ ~doc.hasLegacy THEN returns
        ELSE [returns EXCEPT !.plan =
             << <<java_path>>, <<"-Xmx", ram, "G">>,
                <<"-Djava.library.path=", NativesDir>> >>
             \o JvmArguments(doc, system, current_os)
             \o CheatArguments(ch)
             \o << <<"-cp">>, Join(classpath, PathSep), <<doc.mainClass>> >>
             \o [k \in 1..Len(game_args) |-> ReplaceAll(game_args[k], table, 1)]]

(***************************************************************************)
(* Version Index: load_version_manifest.  A served manifest is             *)
(* [hasLatest, release, snapshot, hasVersions, entries]; an entry is        *)
(* [id, type, hasUrl], with type = NoField for an entry without "type".     *)
(* An entry without "id" fails at the same statement as one without "url".  *)
(***************************************************************************)
Categories ==
    {"Latest Release", "Latest Snapshot", "Release", "Snapshot", "Old Beta", "Old Alpha"}

EmptyCategories == [c \in Categories |-> <<>>]

NoField == "<missing>"

\* the identifiers of the model in ascending order of Python's str comparison
IdOrder == <<"1.20", "1.21", "24w14a", "v1">>

IdRank(id) == CHOOSE k \in 1..Len(IdOrder) : IdOrder[k] = id

\* list.sort(reverse=True) on a list of identifiers
RECURSIVE SortReverse(_)
SortReverse(ids) ==
    IF Len(ids) = 0 THEN <<>>
    ELSE LET at == CHOOSE i \in 1..Len(ids) :
                      /\ \A j \in 1..Len(ids) : IdRank(ids[j]) <= IdRank(ids[i])
                      /\ \A j \in 1..(i - 1) : IdRank(ids[j]) < IdRank(ids[i])
         IN <<ids[at]>> \o SortReverse(SubSeq(ids, 1, at - 1) \o SubSeq(ids, at + 1, Len(ids)))

\* the if/elif chain of the loop: the category an entry is appended to, "none"
\* when no branch is taken, "KeyError" when v["type"] is looked up and missing
ClassifyTypeFirst(v, latest_release_id, latest_snapshot_id) ==
    IF v.type = "release" THEN "Release"
    ELSE IF v.type = "snapshot" THEN "Snapshot"
    ELSE IF v.type = "old_beta" THEN "Old Beta"
    ELSE IF v.type = "old_alpha" THEN "Old Alpha"
    ELSE IF v.id = latest_release_id THEN "Latest Release"
    ELSE IF v.id = latest_snapshot_id THEN "Latest Snapshot"
    ELSE IF v.type = NoField THEN "KeyError"
    ELSE "none"

Classify(v, latest_release_id, latest_snapshot_id) ==
    IF v.id = latest_release_id THEN "Latest Release"
    ELSE IF v.id = latest_snapshot_id THEN "Latest Snapshot"
    ELSE IF v.type = NoField THEN "KeyError"
    ELSE IF v.type = "release" THEN "Release"
    ELSE IF v.type = "snapshot" THEN "Snapshot"
    ELSE IF v.type = "old_beta" THEN "Old Beta"
    ELSE IF v.type = "old_alpha" THEN "Old Alpha"
    ELSE "none"

\* the loop over manifest["versions"], from entry i on
RECURSIVE ManifestLoop(_, _, _, _, _, _)
ManifestLoop(entries, i, vers, cats, latest_release_id, latest_snapshot_id) ==
    IF i > Len(entries) THEN [versions |-> vers, cats |-> cats, raised |-> FALSE]
    ELSE LET v == entries[i]
             c == Classify(v, latest_release_id, latest_snapshot_id)
         IN IF ~v.hasUrl THEN [versions |-> vers, cats |-> cats, raised |-> TRUE]
            ELSE IF c = "KeyError"
            THEN [versions |-> vers \cup {v.id}, cats |-> cats, raised |-> TRUE]
            ELSE ManifestLoop(entries, i + 1, vers \cup {v.id},
                              IF c = "none" THEN cats
                              ELSE [cats EXCEPT ![c] = Append(@, v.id)],
                              latest_release_id, latest_snapshot_id)

\* update_version_list: the version box gets the list of the category the
\* category box shows, and its first entry as the selection ('' for none)
update_version_list(cats, category) ==
    [values |-> cats[category],
     selected |-> IF Len(cats[category]) > 0 THEN cats[category][1] ELSE ""]

\* load_version_manifest: status is what urlopen and json.loads give, combo is
\* the version box [values, selected], category the text of the category box;
\* result is "loaded", or "error" when the handler reported a failure
load_version_manifestKeyErrorEscapes(vers, cats, combo, category, status, doc) ==
    IF status # "served"
    THEN [versions |-> vers, cats |-> cats, combo |-> combo, result |-> "error"]
    ELSE IF ~doc.hasLatest \/ ~doc.hasVersions
    THEN [versions |-> {}, cats |-> EmptyCategories, combo |-> combo,
          result |-> "raised"]
    ELSE LET r == ManifestLoop(doc.entries, 1, {}, EmptyCategories,
                               doc.release, doc.snapshot)
             sorted == [c \in Categories |->
                           IF c \in {"Latest Release", "Latest Snapshot"} THEN r.cats[c]
                           ELSE SortReverse(r.cats[c])]
         IN IF r.raised
            THEN [versions |-> r.versions, cats |-> r.cats, combo |-> combo,
                  result |-> "raised"]
            ELSE [versions |-> r.versions, cats |-> sorted,
                  combo |-> update_version_list(sorted, category), result |-> "loaded"]

load_version_manifestAccumulates(vers, cats, combo, category, status, doc) ==
    IF status # "served"
    THEN [versions |-> vers, cats |-> cats, combo |-> combo, result |-> "error"]
    ELSE IF ~doc.hasLatest \/ ~doc.hasVersions
    THEN [versions |-> vers, cats |-> cats, combo |-> combo, result |-> "error"]
    ELSE LET r == ManifestLoop(doc.entries, 1, vers, cats, doc.release, doc.snapshot)
             sorted == [c \in Categories |->
                           IF c \in {"Latest Release", "Latest Snapshot"} THEN r.cats[c]
                           ELSE SortReverse(r.cats[c])]
         IN IF r.raised
            THEN [versions |-> r.versions, cats |-> r.cats, combo |-> combo,
                  result |-> "error"]
            ELSE [versions |-> r.versions, cats |-> sorted,
                  combo |-> update_version_list(sorted, category), result |-> "loaded"]

load_version_manifest(vers, cats, combo, category, status, doc) ==
    IF status # "served"
    THEN [versions |-> vers, cats |-> cats, combo |-> combo, result |-> "error"]
    ELSE IF ~doc.hasLatest \/ ~doc.hasVersions
    THEN [versions |-> {}, cats |-> EmptyCategories, combo |-> combo,
          result |-> "error"]
    ELSE LET r == ManifestLoop(doc.entries, 1, {}, EmptyCategories,
                               doc.release, doc.snapshot)
             sorted == [c \in Categories |->
                           IF c \in {"Latest Release", "Latest Snapshot"} THEN r.cats[c]
                           ELSE SortReverse(r.cats[c])]
         IN IF r.raised
            THEN [versions |-> r.versions, cats |-> r.cats, combo |-> combo,
                  result |-> "error"]
            ELSE [versions |-> r.versions, cats |-> sorted,
                  combo |-> update_version_list(sorted, category), result |-> "loaded"]

\* what one request to the manifest URL gives
ManifestStatuses == {"refused", "garbled", "served"}

\* the manifest that offers the version of VersionDoc as the latest release
OfferedManifest ==
    [ hasLatest |-> TRUE, release |-> VersionId, snapshot |-> "24w14a",
      hasVersions |-> TRUE,
      entries |-> << [id |-> VersionId, type |-> VersionDoc.type, hasUrl |-> TRUE] >> ]

ManifestIds == {"1.20", "1.21", "24w14a"}

ManifestTypes == {"release", "snapshot", "old_beta", "old_alpha", "pending"}

ManifestEntries ==
    [id : ManifestIds, type : ManifestTypes \cup {NoField}, hasUrl : {TRUE}]
    \cup [id : ManifestIds, type : {"release"}, hasUrl : {FALSE}]

\* version lists of at most MaxEntries entries with distinct identifiers
EntryLists ==
    UNION { {e \in [1..n -> ManifestEntries] :
                 \A i, j \in 1..n : i # j => e[i].id # e[j].id} : n \in 0..MaxEntries }

ManifestDocs ==
    [hasLatest : {TRUE}, release : ManifestIds, snapshot : ManifestIds,
     hasVersions : {TRUE}, entries : EntryLists]
    \cup [hasLatest : {FALSE}, release : {NoField}, snapshot : {NoField},
          hasVersions : {TRUE}, entries : EntryLists]
    \cup [hasLatest : {TRUE}, release : ManifestIds, snapshot : ManifestIds,
          hasVersions : {FALSE}, entries : {<<>>}]

(***************************************************************************)
(* The launch request: prepare_and_launch and the handlers around it.      *)
(***************************************************************************)
Usernames == {"", "Steve"}

\* the order in which prepare_and_launch runs its stages
NextStageAcquisitionFirst(stage) ==
    CASE stage = "begin" -> "download"
      [] stage = "download" -> "install_java"
      [] stage = "install_java" -> "options"
      [] stage = "options" -> "build"
      [] stage = "build" -> "popen"
      [] OTHER -> "idle"

NextStage(stage) ==
    CASE stage = "begin" -> "install_java"
      [] stage = "install_java" -> "download"
      [] stage = "download" -> "options"
      [] stage = "options" -> "build"
      [] stage = "build" -> "popen"
      [] OTHER -> "idle"

\* what prepare_and_launch does with the result of a stage: the stage to run
\* next, "idle" when it returns
AfterStageIgnoringFailure(stage, ok) == NextStage(stage)

AfterStage(stage, ok) ==
    IF stage \in {"install_java", "download", "build"} /\ ~ok THEN "idle"
    ELSE NextStage(stage)

\* control passes to stage next; the lookup of the version's URL precedes the
\* call of download_version_files
EnterFrom(before, next) ==
    LET target == IF next = "download" /\ selected_version \notin versions
                  THEN "idle" ELSE next
    IN  /\ pc' = target
        /\ started' = IF target = "idle" THEN before ELSE Append(before, target)
        /\ dlPhase' = IF target = "download" THEN "json" ELSE "none"
        /\ libIndex' = IF target = "download" THEN 1 ELSE 0

\* the stage returns ok and prepare_and_launch goes on, or returns
Finish(stage, ok) ==
    /\ finished' = Append(finished, [stage |-> stage, ok |-> ok])
    /\ EnterFrom(started, AfterStage(stage, ok))

RequestIdle ==
    /\ pc = "idle"
    /\ dlPhase = "none"
    /\ libIndex = 0
    /\ started = <<>>
    /\ finished = <<>>
    /\ fetched = {}
    /\ processed = {}
    /\ jarCheck = "none"
    /\ jsonLoad = [requests |-> 0, reentries |-> 0]
    /\ libCheck = [i \in 1..Len(VersionDoc.libraries) |-> "none"]
    /\ launch_cmd = <<>>
    /\ spawned = <<>>

PipelineIdle ==
    /\ platformSys = "Linux"
    /\ platformArch = "64bit"
    /\ failing = {}
    /\ systemJava = [found |-> FALSE, major |-> 0]
    /\ javaDir = "absent"
    /\ localMajor = 0
    /\ manifest = OfferedManifest
    /\ manifestLoad = <<>>
    /\ versions = {}
    /\ version_categories = EmptyCategories
    /\ category_combo = "Latest Release"
    /\ version_values = <<>>
    /\ selected_version = ""
    /\ username_input = "Enter Username"
    /\ cheats = [c \in {"killaura", "speed", "fly"} |-> FALSE]
    /\ jsonFile = "absent"
    /\ versionData = VersionDoc
    /\ files = [p \in ArtifactPaths |-> NoFile]
    /\ unpacked = {}
    /\ dirs = DirsOf(jsonFile, files)
    /\ optionsTxt = [exists |-> FALSE, lines |-> <<>>]
    /\ RequestIdle

\* no helper method is called directly
ProbeIdle ==
    /\ probe = [fn |-> "none"]
    /\ probeResults = <<>>

RuleIdle ==
    /\ ruleLib = [hasRules |-> FALSE, rules |-> <<>>]
    /\ ruleOs = "linux"
    /\ ruleCalls = {}
    /\ libResult = FALSE
    /\ argResult = FALSE

\* the state after construction: the manifest was loaded by the constructor,
\* or loading it failed and the version list is empty; an earlier process may
\* have left a version JSON that does not parse (explored on the host on which
\* every stage of a request can succeed, with a disk that does not fail)
Init ==
    /\ RuleIdle
    /\ ProbeIdle
    /\ \E p \in Platforms : platformSys = p[1] /\ platformArch = p[2]
    /\ failing = {}
    /\ systemJava \in RequestJavaStates
    /\ javaDir = "absent"
    /\ localMajor = 0
    /\ manifest = OfferedManifest
    /\ \E status \in {"refused", "served"} :
          LET r == load_version_manifest({}, EmptyCategories,
                                         [values |-> <<>>, selected |-> ""],
                                         "Latest Release", status, manifest)
          IN  /\ manifestLoad = <<r.result>>
              /\ versions = r.versions
              /\ version_categories = r.cats
              /\ category_combo = "Latest Release"
              /\ version_values = r.combo.values
              /\ selected_version = r.combo.selected
    /\ username_input = "Enter Username"
    /\ cheats = [c \in {"killaura", "speed", "fly"} |-> FALSE]
    /\ jsonFile \in IF platformSys = "Linux" /\ platformArch = "64bit"
                        /\ systemJava.major >= REQUIRED_JAVA
                     THEN {"absent", "corrupt"} ELSE {"absent"}
    /\ versionData = VersionDoc
    /\ files = [p \in ArtifactPaths |-> NoFile]
    /\ unpacked = {}
    /\ dirs = DirsOf(jsonFile, files)
    /\ optionsTxt = [exists |-> FALSE, lines |-> <<>>]
    /\ RequestIdle

\* <FocusIn> on the username entry: the placeholder text is cleared
_clear_placeholder ==
    /\ pc = "idle"
    /\ username_input' = IF username_input = "Enter Username" THEN "" ELSE username_input
    /\ UNCHANGED <<ruleVars, probeVars, hostVars, manifest, manifestLoad, versions,
                   version_categories, category_combo, version_values, selected_version,
                   cheats, diskVars, requestVars>>

\* <FocusOut> on the username entry: an entry left empty gets the placeholder
\* text back
_restore_placeholder ==
    /\ pc = "idle"
    /\ username_input' = IF username_input = "" THEN "Enter Username" ELSE username_input
    /\ UNCHANGED <<ruleVars, probeVars, hostVars, manifest, manifestLoad, versions,
                   version_categories, category_combo, version_values, selected_version,
                   cheats, diskVars, requestVars>>

\* the user edits the text of the username entry (the keys typed into the
\* entry; the two focus handlers are the actions above)
TypeUsername ==
    /\ pc = "idle"
    /\ \E u \in Usernames : username_input' = u
    /\ UNCHANGED <<ruleVars, probeVars, hostVars, manifest, manifestLoad, versions,
                   version_categories, category_combo, version_values, selected_version,
                   cheats, diskVars, requestVars>>

\* the categories picked between launch requests
PickedCategories == {"Latest Release", "Release"}

\* the user picks a category in the category box: <<ComboboxSelected>> runs
\* update_version_list
SelectCategory(choices) ==
    /\ pc = "idle"
    /\ \E category \in choices :
          LET combo == update_version_list(version_categories, category)
          IN  /\ category_combo' = category
              /\ version_values' = combo.values
              /\ selected_version' = combo.selected
    /\ UNCHANGED <<ruleVars, probeVars, hostVars, manifest, manifestLoad, versions,
                   version_categories, username_input, cheats, diskVars, requestVars>>

\* the user picks one of the values of the version box
SelectVersion ==
    /\ pc = "idle"
    /\ \E k \in 1..Len(version_values) : selected_version' = version_values[k]
    /\ UNCHANGED <<ruleVars, probeVars, hostVars, manifest, manifestLoad, versions,
                   version_categories, category_combo, version_values, username_input,
                   cheats, diskVars, requestVars>>

toggle_cheat ==
    /\ pc = "idle"
    /\ \E cheat \in {"fly"}, state \in BOOLEAN :
          cheats' = [cheats EXCEPT ![cheat] = state]
    /\ UNCHANGED <<ruleVars, probeVars, hostVars, manifest, manifestLoad, versions,
                   version_categories, category_combo, version_values, selected_version,
                   username_input, diskVars, requestVars>>

\* prepare_and_launch up to its first stage: the two input checks
PrepareAndLaunch ==
    /\ pc = "idle"
    /\ finished' = <<>>
    /\ fetched' = {} /\ processed' = {} /\ jarCheck' = "none"
    /\ jsonLoad' = [requests |-> 0, reentries |-> 0]
    /\ libCheck' = [i \in 1..Len(VersionDoc.libraries) |-> "none"]
    /\ launch_cmd' = <<>> /\ spawned' = <<>>
    /\ IF selected_version = "" \/ username_input \in {"", "Enter Username"}
       THEN EnterFrom(<<>>, "idle")
       ELSE EnterFrom(<<>>, NextStage("begin"))
    /\ UNCHANGED <<ruleVars, probeVars, hostVars, appVars, diskVars>>

\* stage 1: install_java_if_needed
InstallJava ==
    /\ pc = "install_java"
    /\ \E outcome \in InstallOutcomes :
          LET r == install_java_if_needed(javaDir, localMajor, systemJava,
                                          platformSys, platformArch, outcome)
          IN  /\ javaDir' = r.dir
              /\ localMajor' = r.local
              /\ Finish("install_java", r.ok)
    /\ UNCHANGED <<ruleVars, probeVars, platformSys, platformArch, systemJava, failing,
                   appVars, diskVars,
                   fetched, processed, jarCheck, jsonLoad, libCheck, launch_cmd,
                   spawned>>

\* an exception leaves download_version_files and prepare_and_launch, neither
\* of which catches it: the stage ends without a result and the request is over
Propagate(stage, exception) ==
    /\ finished' = Append(finished, [stage |-> stage, raised |-> exception])
    /\ EnterFrom(started, "idle")

\* an exception raised after the version JSON block: the call that
\* download_version_files makes of itself stands inside the try of that
\* block, whose except clause reports the exception of the inner call and
\* returns False
LibraryLoopRaises(exception) ==
    IF jsonLoad.reentries > 0 THEN Finish("download", FALSE)
    ELSE Propagate("download", exception)

\* download_version_files, the creation of the version directory and the
\* version JSON block
DownloadJson ==
    /\ pc = "download" /\ dlPhase = "json"
    /\ \E creation \in (IF "store" \in failing THEN MakedirsOutcomes ELSE {"created"}),
          outcome \in (IF "store" \in failing THEN JsonOutcomes
                       ELSE JsonOutcomes \ {"write_failed"}),
          removal \in (IF "store" \in failing THEN RemoveOutcomes ELSE {"removed"}) :
          LET made == makedirs(dirs, VersionDir, creation)
              r == LoadVersionJson(jsonFile, outcome, removal, 0)
          IN  IF made.raised
              THEN /\ Propagate("download", "OSError")
                   /\ UNCHANGED <<dirs, jsonFile, jsonLoad>>
              ELSE /\ dirs' = made.dirs
                   /\ jsonFile' = r.json
                   /\ jsonLoad' = [requests |-> r.requests, reentries |-> r.reentries]
                   /\ IF r.ok
                      THEN /\ dlPhase' = "jar"
                           /\ UNCHANGED <<pc, started, finished, libIndex>>
                      ELSE Finish("download", FALSE)
    /\ UNCHANGED <<ruleVars, probeVars, hostVars, appVars, versionData, files, unpacked,
                   optionsTxt, fetched, processed, jarCheck, libCheck, launch_cmd,
                   spawned>>

\* the return True at the end of download_version_files, once the loop over
\* the libraries is through
LibrariesDone(i) == i > Len(versionData.libraries)

\* download_version_files, the client JAR block and the creation of the
\* libraries and natives directories that follows it
DownloadJar ==
    /\ pc = "download" /\ dlPhase = "jar"
    /\ \E outcome \in DownloadOutcomes,
          libraries \in (IF "store" \in failing THEN MakedirsOutcomes ELSE {"created"}),
          natives \in (IF "store" \in failing THEN MakedirsOutcomes ELSE {"created"}) :
        \E removal \in RemovalsAfter(outcome, "store" \in failing) :
          LET r == EnsureClientJar(files, outcome, removal)
              l == makedirs(dirs, LibrariesDir, libraries)
              n == makedirs(l.dirs, NativesDir, natives)
          IN  /\ files' = r.fs
              /\ fetched' = IF r.fetched THEN fetched \cup {JarPath} ELSE fetched
              /\ jarCheck' = r.check
              /\ IF ~r.ok THEN dirs' = dirs /\ Finish("download", FALSE)
                 ELSE IF l.raised THEN dirs' = dirs /\ LibraryLoopRaises("OSError")
                 ELSE IF n.raised THEN dirs' = l.dirs /\ LibraryLoopRaises("OSError")
                 ELSE /\ dirs' = n.dirs
                      /\ IF LibrariesDone(libIndex) THEN Finish("download", TRUE)
                         ELSE /\ dlPhase' = "libs"
                              /\ UNCHANGED <<pc, started, finished, libIndex>>
    /\ UNCHANGED <<ruleVars, probeVars, hostVars, appVars, jsonFile, versionData, unpacked,
                   optionsTxt,
                   processed, jsonLoad, libCheck, launch_cmd, spawned>>

\* download_version_files, one round of the loop over the libraries
DownloadLibrary ==
    /\ pc = "download" /\ dlPhase = "libs"
    /\ \E host \in LibraryHosts(versionData.libraries[libIndex], "store" \in failing) :
          LET r == ProcessLibrary(files, dirs, unpacked, versionData.libraries[libIndex],
                                  CurrentOs(platformSys), host)
          IN  /\ files' = r.fs
              /\ dirs' = r.dirs
              /\ unpacked' = r.unpacked
              /\ fetched' = fetched \cup r.fetched
              /\ libCheck' = [libCheck EXCEPT ![libIndex] = r.check]
              /\ IF r.raised # NoException
                 THEN /\ processed' = processed
                      /\ LibraryLoopRaises(r.raised)
                 ELSE /\ processed' = processed \cup {libIndex}
                      /\ IF LibrariesDone(libIndex + 1) THEN Finish("download", TRUE)
                         ELSE /\ libIndex' = libIndex + 1
                              /\ UNCHANGED <<pc, started, finished, dlPhase>>
    /\ UNCHANGED <<ruleVars, probeVars, hostVars, appVars, jsonFile, versionData, optionsTxt,
                   jarCheck,
                   jsonLoad, launch_cmd, spawned>>

\* stage 3: modify_options_txt(target_fps=60)
ModifyOptions ==
    /\ pc = "options"
    /\ \E outcome \in OptionsResults(optionsTxt, "options" \in failing) :
          optionsTxt' = modify_options_txt(optionsTxt, TARGET_FPS, outcome)
    /\ Finish("options", TRUE)
    /\ UNCHANGED <<ruleVars, probeVars, hostVars, appVars, jsonFile, versionData, dirs, files, unpacked,
                   fetched, processed, jarCheck, jsonLoad, libCheck, launch_cmd,
                   spawned>>

\* stage 4: build_launch_command; an empty vector ends the request
BuildCommand ==
    /\ pc = "build"
    /\ LET r == build_launch_command(jsonFile, versionData, files, javaDir, localMajor,
                         systemJava, platformSys, cheats, selected_version,
                         username_input, RamGb)
       IN  IF r.raised # NoException
           THEN launch_cmd' = launch_cmd /\ Propagate("build", r.raised)
           ELSE launch_cmd' = r.plan /\ Finish("build", r.plan # <<>>)
    /\ UNCHANGED <<ruleVars, probeVars, hostVars, appVars, diskVars, fetched, processed,
                   jarCheck, jsonLoad, libCheck, spawned>>

\* stage 5: subprocess.Popen(launch_cmd); the executable may fail to start
Popen ==
    /\ pc = "popen"
    /\ \E ok \in BOOLEAN :
          /\ spawned' = IF ok THEN launch_cmd ELSE <<>>
          /\ Finish("popen", ok)
    /\ UNCHANGED <<ruleVars, probeVars, hostVars, appVars, diskVars, fetched, processed,
                   jarCheck, jsonLoad, libCheck, launch_cmd>>

Next ==
    \/ _clear_placeholder
    \/ TypeUsername
    \/ _restore_placeholder
    \/ SelectCategory(PickedCategories)
    \/ SelectVersion
    \/ toggle_cheat
    \/ PrepareAndLaunch
    \/ InstallJava
    \/ DownloadJson
    \/ DownloadJar
    \/ DownloadLibrary
    \/ ModifyOptions
    \/ BuildCommand
    \/ Popen

Spec == Init /\ [][Next]_vars

(***************************************************************************)
(* Specification of the rule evaluators: the inputs are drawn from the     *)
(* bounded rule lists, and each evaluator is called once on them.          *)
(***************************************************************************)
RuleInit ==
    /\ ruleLib \in {[hasRules |-> FALSE, rules |-> <<>>]}
                   \cup [hasRules : {TRUE}, rules : RuleLists]
    /\ ruleOs \in OsNames
    /\ ruleCalls = {}
    /\ libResult = FALSE
    /\ argResult = FALSE
    /\ ProbeIdle
    /\ PipelineIdle

CallIsLibraryAllowed ==
    /\ "lib" \notin ruleCalls
    /\ libResult' = is_library_allowed(ruleLib, ruleOs)
    /\ ruleCalls' = ruleCalls \cup {"lib"}
    /\ UNCHANGED <<ruleLib, ruleOs, argResult, probeVars, hostVars, appVars, diskVars,
                   requestVars>>

CallEvaluateRules ==
    /\ "arg" \notin ruleCalls
    /\ argResult' = evaluate_rules(ruleLib.hasRules, ruleLib.rules, ruleOs)
    /\ ruleCalls' = ruleCalls \cup {"arg"}
    /\ UNCHANGED <<ruleLib, ruleOs, libResult, probeVars, hostVars, appVars, diskVars,
                   requestVars>>

RuleNext == CallIsLibraryAllowed \/ CallEvaluateRules

RuleSpec == RuleInit /\ [][RuleNext]_vars

(***************************************************************************)
(* Specification of the version index: the manifest URL serves one of the  *)
(* bounded manifests, and load_version_manifest is called on the freshly   *)
(* constructed application object, the first time by init_ui.              *)
(***************************************************************************)
ManifestInit ==
    /\ RuleIdle
    /\ ProbeIdle
    /\ platformSys = "Linux"
    /\ platformArch = "64bit"
    /\ failing = {}
    /\ systemJava = [found |-> FALSE, major |-> 0]
    /\ javaDir = "absent"
    /\ localMajor = 0
    /\ manifest \in ManifestDocs
    /\ manifestLoad = <<>>
    /\ versions = {}
    /\ version_categories = EmptyCategories
    /\ category_combo = "Latest Release"
    /\ version_values = <<>>
    /\ selected_version = ""
    /\ username_input = "Enter Username"
    /\ cheats = [c \in {"killaura", "speed", "fly"} |-> FALSE]
    /\ jsonFile = "absent"
    /\ versionData = VersionDoc
    /\ files = [p \in ArtifactPaths |-> NoFile]
    /\ unpacked = {}
    /\ dirs = DirsOf(jsonFile, files)
    /\ optionsTxt = [exists |-> FALSE, lines |-> <<>>]
    /\ RequestIdle

LoadVersionManifest ==
    /\ Len(manifestLoad) < MaxLoads
    /\ \E status \in ManifestStatuses :
          LET r == load_version_manifest(versions, version_categories,
                                         [values |-> version_values,
                                          selected |-> selected_version],
                                         category_combo, status, manifest)
          IN  /\ versions' = r.versions
              /\ version_categories' = r.cats
              /\ version_values' = r.combo.values
              /\ selected_version' = r.combo.selected
              /\ manifestLoad' = Append(manifestLoad, r.result)
    /\ UNCHANGED <<ruleVars, probeVars, hostVars, manifest, category_combo, username_input,
                   cheats, diskVars, requestVars>>

\* the categories picked between loads: a latest one, one that is sorted and
\* one of the old ones
LoadedCategories == {"Latest Release", "Release", "Old Alpha"}

ManifestNext ==
    \/ LoadVersionManifest
    \/ SelectCategory(LoadedCategories)
    \/ SelectVersion

ManifestSpec == ManifestInit /\ [][ManifestNext]_vars

(***************************************************************************)
(* Specification of the plan builder: build_launch_command is called once  *)
(* on a disk, host and metadata document drawn from bounded sets.          *)
(***************************************************************************)
PlanLibraries == {LibraryA, LibraryB, LibraryN}

\* library lists of at most MaxLibraries distinct entries
PlanLibraryLists ==
    UNION { {l \in [1..n -> PlanLibraries] : \A i, j \in 1..n : i # j => l[i] # l[j]} :
                n \in 0..MaxLibraries }

PlanDocs ==
    { [VersionDoc EXCEPT !.libraries = l, !.mainClass = m] :
          l \in PlanLibraryLists, m \in {"", VersionDoc.mainClass} }

\* a templated program-argument list with placeholders: alone in a token,
\* two distinct ones in a token, one twice, with literal text around them
PlanGame ==
    << [isStr |-> TRUE, token |-> <<"--username">>, rules |-> <<>>, value |-> <<>>],
       [isStr |-> TRUE, token |-> <<"${auth_player_name}">>, rules |-> <<>>, value |-> <<>>],
       [isStr |-> TRUE, token |-> <<"--id=", "${auth_uuid}", "/", "${auth_player_name}">>,
        rules |-> <<>>, value |-> <<>>],
       [isStr |-> TRUE, token |-> <<"${version_name}", "-", "${version_name}">>,
        rules |-> <<>>, value |-> <<>>],
       [isStr |-> FALSE, token |-> <<>>,
        rules |-> <<[action |-> "allow", os |-> "absent", features |-> "set"]>>,
        value |-> << <<"--demo">> >>],
       [isStr |-> FALSE, token |-> <<>>,
        rules |-> <<[action |-> "allow", os |-> "linux", features |-> "absent"]>>,
        value |-> << <<"--assetIndex">>, <<"${assets_index_name}">> >>] >>

\* a legacy argument string, with whitespace at both ends and a double gap
PlanLegacy ==
    <<" ", "--username", " ", "${auth_player_name}", "  ", "--session=",
      "${auth_access_token}", "\t", "--gameDir", " ", "${game_directory}", " ">>

\* a runtime-argument list with a token that holds a key of the substitution
\* table between literal text
PlanJvm ==
    Append(VersionDoc.jvm,
           [isStr |-> TRUE, token |-> <<"-DignoreList=", "${version_name}", ".jar">>,
            rules |-> <<>>, value |-> <<>>])

\* the argument forms of a document: each of "arguments"/"jvm",
\* "arguments"/"game" and "minecraftArguments" present or not
PlanArgumentDocs ==
    { [VersionDoc EXCEPT !.hasJvm = j, !.jvm = PlanJvm, !.hasGame = g, !.game = PlanGame,
                         !.hasLegacy = l, !.minecraftArguments = PlanLegacy] :
          j \in BOOLEAN, g \in BOOLEAN, l \in BOOLEAN }

\* a name, and a name that is the text of a key of the substitution table
PlanUsernames == {"Steve", "${version_name}"}

\* the plan is built for every library list and cache state
PlanLibraryCases ==
    /\ systemJava \in SystemJavaStates
    /\ javaDir = "absent"
    /\ localMajor = 0
    /\ username_input = "Steve"
    /\ jsonFile \in {"absent", "corrupt", "empty", "non_object", "valid"}
    /\ versionData \in PlanDocs
    /\ files \in [ArtifactPaths -> {NoFile, "some-bytes"}]
    /\ files[LibraryB.nativePath] = NoFile

\* the plan is built for every argument form and username
PlanArgumentCases ==
    /\ systemJava \in SystemJavaStates
    /\ javaDir = "absent"
    /\ localMajor = 0
    /\ username_input \in PlanUsernames
    /\ jsonFile = "valid"
    /\ versionData \in PlanArgumentDocs
    /\ files = [p \in ArtifactPaths |-> IF p = LibraryB.nativePath THEN NoFile
                                        ELSE "some-bytes"]

\* the plan is built for every state of the managed and the ambient runtime
PlanRuntimeCases ==
    /\ systemJava \in SystemJavaStates
    /\ javaDir \in {"absent", "dir_only", "exe"}
    /\ localMajor \in (IF javaDir = "exe" THEN {0, 17, 21} ELSE {0})
    /\ username_input = "Steve"
    /\ jsonFile = "valid"
    /\ versionData = VersionDoc
    /\ files = [p \in ArtifactPaths |-> IF p = LibraryB.nativePath THEN NoFile
                                        ELSE "some-bytes"]

PlanInit ==
    /\ RuleIdle
    /\ ProbeIdle
    /\ platformSys \in {"Linux", "Darwin"}
    /\ platformArch = "64bit"
    /\ failing = {}
    /\ manifest = OfferedManifest
    /\ manifestLoad = <<"loaded">>
    /\ versions = {VersionId}
    /\ version_categories = [EmptyCategories EXCEPT !["Latest Release"] = <<VersionId>>]
    /\ category_combo = "Latest Release"
    /\ version_values = <<VersionId>>
    /\ selected_version = VersionId
    /\ cheats \in [{"killaura", "speed", "fly"} -> BOOLEAN]
    /\ \/ PlanLibraryCases
       \/ PlanArgumentCases
       \/ PlanRuntimeCases
    /\ unpacked = {}
    /\ dirs = DirsOf(jsonFile, files)
    /\ optionsTxt = [exists |-> FALSE, lines |-> <<>>]
    /\ RequestIdle

CallBuildLaunchCommand ==
    /\ finished = <<>>
    /\ LET r == build_launch_command(jsonFile, versionData, files, javaDir, localMajor,
                         systemJava, platformSys, cheats, selected_version,
                         username_input, RamGb)
       IN  IF r.raised # NoException
           THEN /\ launch_cmd' = launch_cmd
                /\ finished' = <<[stage |-> "build", raised |-> r.raised]>>
           ELSE /\ launch_cmd' = r.plan
                /\ finished' = <<[stage |-> "build", ok |-> r.plan # <<>>]>>
    /\ UNCHANGED <<ruleVars, probeVars, hostVars, appVars, diskVars, pc, dlPhase, libIndex, started,
                   fetched, processed, jarCheck, jsonLoad, libCheck, spawned>>

PlanNext == CallBuildLaunchCommand

PlanSpec == PlanInit /\ [][PlanNext]_vars

(***************************************************************************)
(* Specification of the acquisition on a failing artifact store, of        *)
(* documents whose library entries can lack keys: launch requests on a     *)
(* host with a usable ambient runtime, where removals, directory creations *)
(* and the write of the version JSON can be refused.                       *)
(***************************************************************************)
\* the first entry, whole or with one key of downloads.artifact missing
AcquireFirst ==
    {[LibraryA EXCEPT !.missing = m] : m \in {{}} \cup {{k} : k \in ArtifactKeys}}

\* the second entry, whole or with one key of the natives block missing
AcquireSecond ==
    {[LibraryB EXCEPT !.missing = m] : m \in {{}} \cup {{k} : k \in NativeKeys}}

AcquireDocs ==
    {[VersionDoc EXCEPT !.libraries = <<a, b>>] : a \in AcquireFirst, b \in AcquireSecond}

AcquireInit ==
    /\ RuleIdle
    /\ ProbeIdle
    /\ platformSys \in {"Linux", "Darwin"}
    /\ platformArch = "64bit"
    /\ failing = {"store"}
    /\ systemJava = [found |-> TRUE, major |-> REQUIRED_JAVA]
    /\ javaDir = "absent"
    /\ localMajor = 0
    /\ manifest = OfferedManifest
    /\ manifestLoad = <<"loaded">>
    /\ versions = {VersionId}
    /\ version_categories = [EmptyCategories EXCEPT !["Latest Release"] = <<VersionId>>]
    /\ category_combo = "Latest Release"
    /\ version_values = <<VersionId>>
    /\ selected_version = VersionId
    /\ username_input = "Steve"
    /\ cheats = [c \in {"killaura", "speed", "fly"} |-> FALSE]
    /\ jsonFile \in {"absent", "corrupt"}
    /\ versionData \in AcquireDocs
    /\ files = [p \in ArtifactPaths |-> NoFile]
    /\ unpacked = {}
    /\ dirs = DirsOf(jsonFile, files)
    /\ optionsTxt = [exists |-> FALSE, lines |-> <<>>]
    /\ RequestIdle

AcquireNext ==
    \/ PrepareAndLaunch
    \/ InstallJava
    \/ DownloadJson
    \/ DownloadJar
    \/ DownloadLibrary
    \/ ModifyOptions
    \/ BuildCommand
    \/ Popen

AcquireSpec == AcquireInit /\ [][AcquireNext]_vars

(***************************************************************************)
(* Specification of the helper methods: one of them is called directly, on *)
(* a host, disk and application state drawn from bounded sets; the state   *)
(* the called helper does not read is at rest.                             *)
(***************************************************************************)
HostIdle ==
    /\ platformSys = "Linux"
    /\ platformArch = "64bit"
    /\ systemJava = [found |-> FALSE, major |-> 0]
    /\ javaDir = "absent"
    /\ localMajor = 0

AppIdle ==
    /\ manifest = OfferedManifest
    /\ manifestLoad = <<>>
    /\ versions = {}
    /\ version_categories = EmptyCategories
    /\ category_combo = "Latest Release"
    /\ version_values = <<>>
    /\ selected_version = ""
    /\ username_input = "Enter Username"
    /\ cheats = [c \in {"killaura", "speed", "fly"} |-> FALSE]

DiskIdle ==
    /\ jsonFile = "absent"
    /\ versionData = VersionDoc
    /\ files = [p \in ArtifactPaths |-> NoFile]
    /\ unpacked = {}
    /\ dirs = DirsOf(jsonFile, files)
    /\ optionsTxt = [exists |-> FALSE, lines |-> <<>>]

\* calls made of one helper at most
MaxCalls == 2

\* the values of required_version
JavaMinimums == {17, 21, 22}

\* the managed runtime: no directory, a directory without the executable,
\* the executable with a version that does not parse (0) or parses
ManagedRuntimes ==
    {<<"absent", 0>>, <<"dir_only", 0>>, <<"exe", 0>>, <<"exe", 17>>, <<"exe", 21>>}

HelperJavaCases ==
    /\ probe \in {[fn |-> "is_java_installed", min |-> n] : n \in JavaMinimums}
                 \cup {[fn |-> "install_java_if_needed"]}
    /\ \E p \in Platforms : platformSys = p[1] /\ platformArch = p[2]
    /\ failing = {}
    /\ systemJava \in SystemJavaStates
    /\ \E r \in ManagedRuntimes : javaDir = r[1] /\ localMajor = r[2]
    /\ AppIdle
    /\ DiskIdle

\* what the file at the verified path holds: nothing, something unreadable,
\* the published bytes, other bytes, no bytes
VerifiedContents == {NoFile, Unreadable, "client-bytes", "other-bytes", ""}

\* the expected digests: of the published bytes in both spellings, of the
\* empty content, and of nothing on disk
ExpectedDigests ==
    {Sha1Hex("client-bytes"), UpperSha1Hex("client-bytes"), Sha1Hex(""),
     Sha1Hex("lost-bytes")}

HelperVerifyCases ==
    /\ probe \in [fn : {"verify_file"}, path : {JarPath, LibraryA.artifact.path},
                  expected : ExpectedDigests]
    /\ \E c \in VerifiedContents :
          files = [p \in ArtifactPaths |-> IF p = probe.path THEN c ELSE NoFile]
    /\ jsonFile = "absent"
    /\ versionData = VersionDoc
    /\ unpacked = {}
    /\ dirs = DirsOf(jsonFile, files)
    /\ optionsTxt = [exists |-> FALSE, lines |-> <<>>]
    /\ HostIdle
    /\ failing = {}
    /\ AppIdle

\* lines of an options file at most
MaxLines == 3

\* lines of an options file: well-formed ones, one of a key the method sets,
\* one whose value holds a colon and is followed by whitespace, a second
\* line of a key, a line without a colon, an empty line
OptionLines ==
    { <<"fov", ":", "70", "\n">>,
      <<"maxFps", ":", "120", "\n">>,
      <<"lastServer", ":", "host", ":", "25565", " ", "\n">>,
      <<"fov", ":", "90", "\n">>,
      <<"garbage", "\n">>,
      <<"\n">> }

OptionFiles ==
    {[exists |-> FALSE, lines |-> <<>>]}
    \cup {[exists |-> TRUE, lines |-> l] :
              l \in UNION {[1..n -> OptionLines] : n \in 0..MaxLines}}

HelperOptionsCases ==
    /\ probe = [fn |-> "modify_options_txt"]
    /\ optionsTxt \in OptionFiles
    /\ jsonFile = "absent"
    /\ versionData = VersionDoc
    /\ files = [p \in ArtifactPaths |-> NoFile]
    /\ unpacked = {}
    /\ dirs = DirsOf(jsonFile, files)
    /\ HostIdle
    /\ failing = {"options"}
    /\ AppIdle

\* usernames passed to generate_offline_uuid
UuidUsernames == {"Steve", "Alex", "", "${version_name}"}

\* the identifier is derived in every state of the entries and checkboxes
HelperUuidCases ==
    /\ probe \in [fn : {"generate_offline_uuid"}, username : UuidUsernames]
    /\ manifest = OfferedManifest
    /\ manifestLoad = <<>>
    /\ versions = {}
    /\ version_categories = EmptyCategories
    /\ category_combo = "Latest Release"
    /\ selected_version \in {"", VersionId}
    /\ version_values = IF selected_version = "" THEN <<>> ELSE <<VersionId>>
    /\ username_input \in Usernames \cup {"Enter Username"}
    /\ cheats \in [{"killaura", "speed", "fly"} -> BOOLEAN]
    /\ HostIdle
    /\ failing = {}
    /\ DiskIdle

HelperInit ==
    /\ RuleIdle
    /\ RequestIdle
    /\ probeResults = <<>>
    /\ \/ HelperJavaCases
       \/ HelperVerifyCases
       \/ HelperOptionsCases
       \/ HelperUuidCases

\* is_java_installed(required_version): the result and the executables run
CallIsJavaInstalled ==
    /\ probe.fn = "is_java_installed"
    /\ Len(probeResults) < MaxCalls
    /\ probeResults' = Append(probeResults,
            [value |-> is_java_installed(javaDir, localMajor, systemJava, probe.min),
             runs |-> JavaVersionRuns(javaDir, localMajor)])
    /\ UNCHANGED <<ruleVars, probe, hostVars, appVars, diskVars, requestVars>>

\* install_java_if_needed(): the result and the number of downloads
CallInstallJavaIfNeeded ==
    /\ probe.fn = "install_java_if_needed"
    /\ Len(probeResults) < MaxCalls
    /\ \E outcome \in InstallOutcomes :
          LET r == install_java_if_needed(javaDir, localMajor, systemJava,
                                          platformSys, platformArch, outcome)
          IN  /\ javaDir' = r.dir
              /\ localMajor' = r.local
              /\ probeResults' = Append(probeResults,
                                        [ok |-> r.ok, requests |-> r.requests])
    /\ UNCHANGED <<ruleVars, probe, platformSys, platformArch, systemJava, failing, appVars,
                   diskVars, requestVars>>

\* verify_file(file_path, expected_sha1): the result, and the disk after it
CallVerifyFile ==
    /\ probe.fn = "verify_file"
    /\ Len(probeResults) < MaxCalls
    /\ probeResults' = Append(probeResults,
            [value |-> verify_file(files, probe.path, probe.expected)])
    /\ files' = verify_fileDisk(files, probe.path)
    /\ UNCHANGED <<ruleVars, probe, hostVars, appVars, jsonFile, versionData, dirs, unpacked,
                   optionsTxt, requestVars>>

\* modify_options_txt(target_fps=60): it returns nothing and raises nothing;
\* the result records the file it found and what the host let it do
CallModifyOptionsTxt ==
    /\ probe.fn = "modify_options_txt"
    /\ Len(probeResults) < 1
    /\ \E outcome \in OptionsResults(optionsTxt, "options" \in failing) :
          /\ optionsTxt' = modify_options_txt(optionsTxt, TARGET_FPS, outcome)
          /\ probeResults' = Append(probeResults,
                  [raised |-> FALSE, before |-> optionsTxt, outcome |-> outcome])
    /\ UNCHANGED <<ruleVars, probe, hostVars, appVars, jsonFile, versionData, dirs, files,
                   unpacked, requestVars>>

\* generate_offline_uuid(username)
CallGenerateOfflineUuid ==
    /\ probe.fn = "generate_offline_uuid"
    /\ Len(probeResults) < MaxCalls
    /\ probeResults' = Append(probeResults,
                              [value |-> generate_offline_uuid(probe.username)])
    /\ UNCHANGED <<ruleVars, probe, hostVars, appVars, diskVars, requestVars>>

HelperNext ==
    \/ CallIsJavaInstalled
    \/ CallInstallJavaIfNeeded
    \/ CallVerifyFile
    \/ CallModifyOptionsTxt
    \/ CallGenerateOfflineUuid

HelperSpec == HelperInit /\ [][HelperNext]_vars

(***************************************************************************)
(* Properties of the rule evaluators (checked under RuleSpec).             *)
(***************************************************************************)
LibReturned == "lib" \in ruleCalls

ArgReturned == "arg" \in ruleCalls

\* a rule without "features" key, whose platform predicate is absent or names
\* the platform, and whose action is disallow
IsMatchingDisallow(rule, p) ==
    /\ rule.features = "absent"
    /\ rule.os \in {"absent", p}
    /\ rule.action = "disallow"

IsMatchingAllow(rule, p) ==
    /\ rule.features = "absent"
    /\ rule.os \in {"absent", p}
    /\ rule.action = "allow"

HasMatchingDisallow ==
    /\ ruleLib.hasRules
    /\ \E i \in 1..Len(ruleLib.rules) : IsMatchingDisallow(ruleLib.rules[i], ruleOs)

\* C5: a rule list holding a matching disallow rule without feature predicate
\* evaluates to false in is_library_allowed and in evaluate_rules, wherever
\* that rule stands relative to matching allow rules.
C5_DisallowVeto ==
    HasMatchingDisallow =>
        /\ LibReturned => libResult = FALSE
        /\ ArgReturned => argResult = FALSE

\* both evaluators have returned on a list with a matching allow rule before
\* and another one after a matching disallow rule
C5_Witness ==
    /\ ruleCalls = {"lib", "arg"}
    /\ ruleLib.hasRules
    /\ Len(ruleLib.rules) = 3
    /\ IsMatchingAllow(ruleLib.rules[1], ruleOs)
    /\ IsMatchingDisallow(ruleLib.rules[2], ruleOs)
    /\ IsMatchingAllow(ruleLib.rules[3], ruleOs)
    /\ ~libResult /\ ~argResult

\* C6: an empty or absent rule list evaluates to true for every platform, in
\* is_library_allowed (rules key missing, or rules list empty) and in
\* evaluate_rules.
C6_EmptyRulesAllow ==
    (~ruleLib.hasRules \/ Len(ruleLib.rules) = 0) =>
        /\ LibReturned => libResult = TRUE
        /\ ArgReturned => argResult = TRUE

\* the rule list with every rule that carries a feature predicate removed
WithoutFeatureRules(rules) == SelectSeq(rules, LAMBDA r : r.features # "set")

\* C7 as claimed: evaluating a rule list gives the same result as evaluating
\* it with every feature-carrying rule removed, in both evaluators.
C7_FeatureRulesRemovable ==
    ruleLib.hasRules =>
        /\ LibReturned =>
             libResult = is_library_allowed(
                 [hasRules |-> TRUE, rules |-> WithoutFeatureRules(ruleLib.rules)], ruleOs)
        /\ ArgReturned =>
             argResult = evaluate_rules(TRUE, WithoutFeatureRules(ruleLib.rules), ruleOs)

\* C7 amended: when some rule of the list carries no feature predicate, both
\* evaluators give the result of the list with the feature-carrying rules
\* removed; a non-empty list of feature-carrying rules only evaluates to false.
C7_FeatureRulesNeverMatch ==
    ruleLib.hasRules =>
        LET kept == WithoutFeatureRules(ruleLib.rules) IN
        /\ (Len(kept) > 0 /\ LibReturned) =>
             libResult = is_library_allowed([hasRules |-> TRUE, rules |-> kept], ruleOs)
        /\ (Len(kept) > 0 /\ ArgReturned) =>
             argResult = evaluate_rules(TRUE, kept, ruleOs)
        /\ (Len(kept) = 0 /\ Len(ruleLib.rules) > 0 /\ LibReturned) => libResult = FALSE
        /\ (Len(kept) = 0 /\ Len(ruleLib.rules) > 0 /\ ArgReturned) => argResult = FALSE

\* both evaluators have returned true on a list whose feature-carrying rule is
\* a disallow rule that would veto if it were matched
C7_Witness ==
    /\ ruleCalls = {"lib", "arg"}
    /\ ruleLib.hasRules
    /\ Len(ruleLib.rules) = 2
    /\ IsMatchingAllow(ruleLib.rules[1], ruleOs)
    /\ ruleLib.rules[2] = [action |-> "disallow", os |-> "absent", features |-> "set"]
    /\ libResult /\ argResult

\* C8: for every rule list and platform, is_library_allowed on a library with
\* that rule list returns the value of evaluate_rules on the list.
C8_EvaluatorsAgree ==
    (ruleLib.hasRules /\ LibReturned /\ ArgReturned) => libResult = argResult

(***************************************************************************)
(* Properties of acquisition and of the launch request (checked under      *)
(* Spec, and under AcquireSpec where they turn on what a failing artifact  *)
(* store does).                                                            *)
(***************************************************************************)
\* the file at an artifact path has the digest of its download descriptor
Verified(path) ==
    files[path] # NoFile /\ Sha1Hex(files[path]) = ExpectedSha1(path)

\* download_version_files has returned in this request, with this result
DownloadReturned(ok) ==
    \E i \in 1..Len(finished) : finished[i] = [stage |-> "download", ok |-> ok]

\* the files named by the classpath token of an argument vector: the token
\* after the last "-cp", without the path separators
ClasspathFiles(cmd) ==
    LET at == CHOOSE i \in 1..Len(cmd) :
                  /\ cmd[i] = <<"-cp">>
                  /\ \A j \in (i + 1)..Len(cmd) : cmd[j] # <<"-cp">>
    IN  {cmd[at + 1][k] : k \in 1..Len(cmd[at + 1])} \ {PathSep}

\* C1: every file on the classpath of a launch plan has the digest of its
\* download descriptor; a file that only exists at its storage path is never
\* part of a plan.
C1_ClasspathVerified ==
    launch_cmd # <<>> => \A path \in ClasspathFiles(launch_cmd) : Verified(path)

\* C2: when download_version_files returns success the main archive exists
\* with the digest of the metadata, and the run downloaded it if and only if
\* no local file existed or the local file did not verify.
C2_MainArchiveVerified ==
    /\ [](DownloadReturned(TRUE) => Verified(JarPath))
    /\ [][(dlPhase = "jar" /\ (dlPhase' = "libs" \/ DownloadReturned(TRUE)'))
             => ((JarPath \in fetched') <=> ~Verified(JarPath))]_vars

\* a successful run that replaced an unverified local main archive
C2_Witness ==
    /\ DownloadReturned(TRUE)
    /\ JarPath \in fetched
    /\ jarCheck = "verified"
    /\ Verified(JarPath)

\* C3: when the downloaded main archive does not verify, the file is deleted,
\* download_version_files returns failure, and no library entry (archive or
\* native bundle) is processed in that run.
C3_MainArchiveMismatchIsHard ==
    jarCheck = "mismatch" =>
        /\ files[JarPath] = NoFile
        /\ DownloadReturned(FALSE)
        /\ processed = {}
        /\ fetched = {JarPath}
        /\ pc = "idle"

\* C4: once an acquisition run has ended, every artifact path is absent or
\* holds a file with the digest of its descriptor.
C4_NoUnverifiedFileLeft ==
    (DownloadReturned(TRUE) \/ DownloadReturned(FALSE)) =>
        \A path \in ArtifactPaths : files[path] = NoFile \/ Verified(path)

\* the stages of the order the claim gives, numbered in that order
ClaimedRank(stage) ==
    CASE stage = "download" -> 1
      [] stage = "install_java" -> 2
      [] stage = "build" -> 3
      [] stage = "popen" -> 4
      [] OTHER -> 0

\* C9 as claimed: acquisition runs before runtime provisioning, then the plan
\* is built, then the process is started.
C9_AcquisitionThenProvisioning ==
    \A i, j \in 1..Len(started) :
        (i < j /\ ClaimedRank(started[i]) > 0 /\ ClaimedRank(started[j]) > 0)
            => ClaimedRank(started[i]) < ClaimedRank(started[j])

StageOrder == <<"install_java", "download", "options", "build", "popen">>

\* C9 amended: the stages of a request run in the order runtime provisioning,
\* artifact acquisition, (options rewrite,) plan construction, process start,
\* and a stage is started only when the one before it has finished.
C9_ProvisioningThenAcquisition ==
    /\ Len(started) <= Len(StageOrder)
    /\ \A i \in 1..Len(started) : started[i] = StageOrder[i]
    /\ Len(finished) <= Len(started)
    /\ \A i \in 1..Len(finished) : finished[i].stage = started[i]
    /\ IF pc = "idle" THEN Len(finished) = Len(started)
       ELSE /\ Len(started) = Len(finished) + 1
            /\ started[Len(started)] = pc

C9_Witness ==
    /\ started = StageOrder
    /\ Len(finished) = Len(StageOrder)
    /\ spawned # <<>>

StageResult(stage, ok) ==
    \E i \in 1..Len(finished) : finished[i] = [stage |-> stage, ok |-> ok]

\* a stage that ended without success: it returned failure or raised
StageFailed(result) == "raised" \in DOMAIN result \/ ~result.ok

\* C10: the process is started only after runtime provisioning and
\* acquisition returned success and a non-empty plan was built in the same
\* request; after a failed stage no later stage of the request runs.
C10_FailureStopsRequest ==
    /\ (spawned # <<>> \/ \E i \in 1..Len(started) : started[i] = "popen") =>
          /\ StageResult("install_java", TRUE)
          /\ StageResult("download", TRUE)
          /\ StageResult("build", TRUE)
          /\ launch_cmd # <<>>
    /\ StageResult("build", TRUE) <=> launch_cmd # <<>>
    /\ \A i \in 1..Len(finished) :
          (finished[i].stage \in {"install_java", "download", "build"}
              /\ StageFailed(finished[i]))
             => /\ Len(started) = i
                /\ pc = "idle"
                /\ spawned = <<>>
                /\ (finished[i].stage # "build" => launch_cmd = <<>>)

\* acquisition failed after provisioning succeeded, and the request is over
C10_Witness ==
    /\ finished = << [stage |-> "install_java", ok |-> TRUE],
                     [stage |-> "download", ok |-> FALSE] >>
    /\ pc = "idle"
    /\ optionsTxt.exists = FALSE

AllLibraries == 1..Len(VersionDoc.libraries)

\* the artifact block of a library entry failed in this run: the download
\* raised, or the downloaded file did not verify
LibraryFailed(i) == libCheck[i] \in {"raised", "mismatch"}

\* the JSON block and the client JAR block of this run went through
MandatoryPartsSucceeded ==
    /\ jsonFile = "valid"
    /\ jarCheck \in {"cached", "verified"}

\* C11: a download failure or verification failure of a library's primary
\* archive neither fails nor stops the acquisition run: a downloaded library
\* file that does not verify is deleted, every later entry is processed, and
\* the run returns success whenever the metadata document and the main archive
\* succeeded.
C11_LibraryFailureIsSoft ==
    /\ \A i \in AllLibraries :
          libCheck[i] = "mismatch" => files[VersionDoc.libraries[i].artifact.path] = NoFile
    /\ (\E i \in AllLibraries : LibraryFailed(i)) =>
          /\ ~DownloadReturned(FALSE)
          /\ IF pc = "download" THEN processed = 1..(libIndex - 1)
             ELSE processed = AllLibraries /\ DownloadReturned(TRUE)
    /\ ((DownloadReturned(TRUE) \/ DownloadReturned(FALSE)) /\ MandatoryPartsSucceeded)
          => (DownloadReturned(TRUE) /\ processed = AllLibraries)

\* the state C11 excludes, reached where the host refuses the removal: the
\* first library's download did not verify, the file is still in place, and
\* the run returned success
C11_UnverifiedLibraryKept ==
    /\ libCheck[1] = "mismatch"
    /\ files[LibraryA.artifact.path] = "different-bytes"
    /\ DownloadReturned(TRUE)

\* a library entry applies to the platform; its native bundle applies as well
LibraryApplies(lib) == is_library_allowed(lib, CurrentOs(platformSys))

NativesApply(lib) ==
    /\ LibraryApplies(lib)
    /\ CurrentOs(platformSys) \in lib.natives
    /\ Classifier(lib, CurrentOs(platformSys)) \in lib.classifiers

\* the metadata document, the main archive and every applicable library and
\* native archive are present and verified
CacheVerified ==
    /\ jsonFile = "valid"
    /\ Verified(JarPath)
    /\ \A i \in AllLibraries :
          LET lib == VersionDoc.libraries[i] IN
          /\ (LibraryApplies(lib) /\ lib.hasArtifact) => Verified(lib.artifact.path)
          /\ NativesApply(lib) => Verified(lib.nativePath)

\* the network requests of the acquisition run: urlopen and urlretrieve calls
NetworkRequests == jsonLoad.requests + Cardinality(fetched)

\* C12: an acquisition run on a cache in which the metadata document, the main
\* archive and every applicable library and native archive are present and
\* verified performs no network request, changes no file and returns success.
C12_VerifiedCacheIsNotFetched ==
    /\ [][(pc = "download" /\ CacheVerified)
             => /\ NetworkRequests' = NetworkRequests
                /\ files' = files /\ jsonFile' = jsonFile
                /\ ~DownloadReturned(FALSE)']_vars
    /\ []((pc = "download" /\ dlPhase = "json") => NetworkRequests = 0)

\* a run over all library entries, on the platform where the native bundle
\* applies, that returned success without any network request
C12_Witness ==
    /\ platformSys = "Linux"
    /\ DownloadReturned(TRUE)
    /\ processed = AllLibraries
    /\ libCheck = [i \in AllLibraries |-> "cached"]
    /\ jarCheck = "cached"
    /\ NetworkRequests = 0
    /\ CacheVerified

\* C13: within one call of download_version_files an unparsable local
\* metadata file is deleted and fetched fresh exactly once: the call
\* re-enters itself at most once and ends with a result, whatever the fetch
\* gives.
C13_MetadataRefetchedOnce ==
    /\ [](jsonLoad.reentries <= 1 /\ jsonLoad.requests <= 1)
    /\ [][(pc = "download" /\ dlPhase = "json" /\ jsonFile = "corrupt")
             => /\ jsonLoad'.reentries = 1
                /\ jsonLoad'.requests = 1
                /\ IF jsonFile' = "valid" THEN dlPhase' = "jar"
                   ELSE DownloadReturned(FALSE)' /\ pc' = "idle"]_vars

\* the call re-entered itself once, the fresh fetch failed as well, and the
\* call returned failure with the unparsable file gone
C13_Witness ==
    /\ jsonLoad = [requests |-> 1, reentries |-> 1]
    /\ jsonFile = "absent"
    /\ DownloadReturned(FALSE)

\* the state C13 excludes, reached where the host refuses the deletion:
\* failure, no re-entry, no fetch, the unparsable file kept
C13_RefusedWitness ==
    /\ jsonLoad = [requests |-> 0, reentries |-> 0]
    /\ jsonFile = "corrupt"
    /\ finished = << [stage |-> "install_java", ok |-> TRUE],
                     [stage |-> "download", ok |-> FALSE] >>

(***************************************************************************)
(* Properties of the version index (checked under ManifestSpec).           *)
(***************************************************************************)
\* the last call of load_version_manifest built the index from the manifest
ManifestLoaded ==
    Len(manifestLoad) > 0 /\ manifestLoad[Len(manifestLoad)] = "loaded"

\* the places of an identifier in the category lists
Placements(id) ==
    UNION { {<<c, k>> : k \in {n \in 1..Len(version_categories[c]) :
                                   version_categories[c][n] = id}} : c \in Categories }

InCategory(id, c) ==
    \E k \in 1..Len(version_categories[c]) : version_categories[c][k] = id

\* C14: after a successful load_version_manifest every entry of the manifest's
\* version list is in exactly one of the six category lists, whatever its type.
C14_EveryEntryInOneCategory ==
    ManifestLoaded =>
        \A i \in 1..Len(manifest.entries) :
            Cardinality(Placements(manifest.entries[i].id)) = 1

\* C15 as claimed: the entry named by latest.release is in Latest Release and
\* not in Release, and the entry named by latest.snapshot is in Latest Snapshot
\* and not in Snapshot, whatever the entry's type.
C15_LatestEntriesInLatestCategories ==
    ManifestLoaded =>
        \A i \in 1..Len(manifest.entries) :
            LET v == manifest.entries[i] IN
            /\ v.id = manifest.release =>
                  (InCategory(v.id, "Latest Release") /\ ~InCategory(v.id, "Release"))
            /\ v.id = manifest.snapshot =>
                  (InCategory(v.id, "Latest Snapshot") /\ ~InCategory(v.id, "Snapshot"))

\* C15 amended: the entry named by latest.release is in Latest Release only;
\* the entry named by latest.snapshot is in Latest Snapshot only, unless
\* latest.release names the same entry, which is then in Latest Release only.
C15_LatestReleaseTakesPrecedence ==
    ManifestLoaded =>
        \A i \in 1..Len(manifest.entries) :
            LET v == manifest.entries[i] IN
            /\ v.id = manifest.release =>
                  Placements(v.id) = {<<"Latest Release", 1>>}
            /\ (v.id = manifest.snapshot /\ v.id # manifest.release) =>
                  Placements(v.id) = {<<"Latest Snapshot", 1>>}

\* the latest release is an entry of type snapshot and the latest snapshot an
\* entry of type release; each is in its latest category only
C15_Witness ==
    /\ ManifestLoaded
    /\ Len(manifest.entries) = 2
    /\ manifest.entries[1].id = manifest.release
    /\ manifest.entries[1].type = "snapshot"
    /\ manifest.entries[2].id = manifest.snapshot
    /\ manifest.entries[2].type = "release"
    /\ version_categories["Latest Release"] = <<manifest.release>>
    /\ version_categories["Latest Snapshot"] = <<manifest.snapshot>>
    /\ version_categories["Release"] = <<>>
    /\ version_categories["Snapshot"] = <<>>

\* C16: load_version_manifest never lets an exception escape: a network
\* failure, malformed JSON or a missing field ends in the reported error, and
\* the method can be called again on the same application object.
C16_ManifestErrorsAreReported ==
    /\ \A k \in 1..Len(manifestLoad) : manifestLoad[k] \in {"loaded", "error"}
    /\ (~manifest.hasLatest \/ ~manifest.hasVersions
           \/ \E i \in 1..Len(manifest.entries) : ~manifest.entries[i].hasUrl)
          => \A k \in 1..Len(manifestLoad) : manifestLoad[k] = "error"

\* a load failed on the second entry's missing field after the first entry was
\* indexed, was reported, and the method was called again
C16_Witness ==
    /\ Len(manifest.entries) = 2
    /\ manifest.entries[1].hasUrl /\ manifest.entries[1].type # NoField
    /\ ~manifest.entries[2].hasUrl
    /\ manifestLoad = <<"error", "error">>
    /\ versions = {manifest.entries[1].id}

(***************************************************************************)
(* Properties of the plan builder (checked under PlanSpec).                *)
(***************************************************************************)
\* the call of build_launch_command is over; it has returned a result
PlanEnded == Len(finished) = 1 /\ finished[1].stage = "build"

PlanReturned == PlanEnded /\ "ok" \in DOMAIN finished[1]

\* position of the "-cp" element the builder adds: the last one of the vector
ClasspathFlagAt(cmd) ==
    CHOOSE i \in 1..Len(cmd) :
        /\ cmd[i] = <<"-cp">>
        /\ \A j \in (i + 1)..Len(cmd) : cmd[j] # <<"-cp">>

\* the vector is a whole plan: executable, heap flag, "-cp" followed by a
\* classpath and the entry point
WholePlan(cmd) ==
    /\ Len(cmd) >= 6
    /\ cmd[1] \in {<<"java">>, <<LocalJavaPath>>}
    /\ cmd[2] = <<"-Xmx", RamGb, "G">>
    /\ \E i \in 4..(Len(cmd) - 2) :
          /\ cmd[i] = <<"-cp">>
          /\ Len(cmd[i + 1]) > 0
          /\ cmd[i + 2] = <<versionData.mainClass>>

\* C17: build_launch_command returns the empty plan whenever the version JSON
\* is missing or unreadable, the metadata names no main class, or the main
\* archive is missing on disk; what it returns is empty or a whole plan.
C17_MissingInputGivesEmptyPlan ==
    PlanEnded =>
        /\ (jsonFile # "valid" \/ versionData.mainClass = "" \/ files[JarPath] = NoFile)
              => (PlanReturned /\ launch_cmd = <<>>)
        /\ launch_cmd = <<>> \/ WholePlan(launch_cmd)
        /\ PlanReturned => (finished[1].ok <=> launch_cmd # <<>>)

\* the same for every version JSON but one that parses to a document that is
\* no object
C17_EmptyPlanUnlessNonObject ==
    (PlanEnded /\ jsonFile # "non_object") =>
        /\ PlanReturned
        /\ (jsonFile # "valid" \/ versionData.mainClass = "" \/ files[JarPath] = NoFile)
              => launch_cmd = <<>>
        /\ launch_cmd = <<>> \/ WholePlan(launch_cmd)
        /\ finished[1].ok <=> launch_cmd # <<>>

\* the state C17 excludes: the version JSON holds a document that is no
\* object, a runtime is available, and the call ended with an exception
C17_NonObjectRaises ==
    /\ PlanEnded
    /\ jsonFile = "non_object"
    /\ finished[1] = [stage |-> "build", raised |-> "AttributeError"]
    /\ launch_cmd = <<>>

\* the only missing input is the main archive: metadata readable with a main
\* class, a runtime available, every library file present; the plan is empty
C17_Witness ==
    /\ PlanReturned
    /\ jsonFile = "valid"
    /\ versionData.mainClass # ""
    /\ systemJava = [found |-> TRUE, major |-> 21]
    /\ files[JarPath] = NoFile
    /\ files[LibraryA.artifact.path] # NoFile
    /\ versionData.libraries = <<LibraryA>>
    /\ launch_cmd = <<>>

\* the classpath element of a plan, and the paths it joins
ClasspathToken(cmd) == cmd[ClasspathFlagAt(cmd) + 1]

ClasspathEntries(cmd) ==
    LET token == ClasspathToken(cmd)
    IN  [k \in 1..((Len(token) + 1) \div 2) |-> token[2 * k - 1]]

\* index of the library entry of the metadata whose artifact is stored at path
LibraryIndexOf(path) ==
    CHOOSE i \in 1..Len(versionData.libraries) :
        versionData.libraries[i].hasArtifact
        /\ versionData.libraries[i].artifact.path = path

\* C18: the classpath of a plan lists the included library archives in the
\* order of the metadata's library list and the main archive last, joined
\* with the path separator; libraries [A, B], both applicable and present,
\* and main archive M give A, B, M.
C18_ClasspathOrder ==
    (PlanReturned /\ launch_cmd # <<>>) =>
        LET token == ClasspathToken(launch_cmd)
            entries == ClasspathEntries(launch_cmd)
            n == Len(entries)
        IN  /\ Len(token) = 2 * n - 1
            /\ \A k \in 1..(n - 1) : token[2 * k] = PathSep
            /\ entries[n] = JarPath
            /\ \A k \in 1..(n - 1) :
                  \E i \in 1..Len(versionData.libraries) :
                      versionData.libraries[i].hasArtifact
                      /\ versionData.libraries[i].artifact.path = entries[k]
            /\ \A k, l \in 1..(n - 1) :
                  k < l => LibraryIndexOf(entries[k]) < LibraryIndexOf(entries[l])
            /\ (versionData.libraries = <<LibraryA, LibraryB>> /\ platformSys = "Linux"
                  /\ files[LibraryA.artifact.path] # NoFile
                  /\ files[LibraryB.artifact.path] # NoFile)
                 => token = <<LibraryA.artifact.path, PathSep,
                              LibraryB.artifact.path, PathSep, JarPath>>

\* a plan for the library list [B, A], both applicable and present
C18_Witness ==
    /\ PlanReturned
    /\ versionData.libraries = <<LibraryB, LibraryA>>
    /\ platformSys = "Linux"
    /\ launch_cmd # <<>>
    /\ ClasspathToken(launch_cmd) = <<LibraryB.artifact.path, PathSep,
                                      LibraryA.artifact.path, PathSep, JarPath>>

\* C19: a library's primary archive is on the classpath if and only if the
\* library is applicable on the platform, has an artifact descriptor and its
\* file exists; a missing library file never makes build_launch_command fail.
C19_ClasspathMembership ==
    PlanReturned =>
        /\ launch_cmd # <<>> =>
              \A i \in 1..Len(versionData.libraries) :
                  LET lib == versionData.libraries[i] IN
                  (\E k \in 1..(Len(ClasspathEntries(launch_cmd)) - 1) :
                       lib.hasArtifact
                       /\ ClasspathEntries(launch_cmd)[k] = lib.artifact.path)
                  <=> (/\ LibraryApplies(lib)
                       /\ lib.hasArtifact
                       /\ files[lib.artifact.path] # NoFile)
        /\ (/\ jsonFile = "valid"
            /\ is_java_installed(javaDir, localMajor, systemJava, REQUIRED_JAVA)
            /\ versionData.mainClass # ""
            /\ files[JarPath] # NoFile
            /\ (versionData.hasGame \/ versionData.hasLegacy))
              => launch_cmd # <<>>

\* a plan built while the file of an applicable library is missing: the other
\* library is on the classpath, the missing one is not
C19_Witness ==
    /\ PlanReturned
    /\ versionData.libraries = <<LibraryA, LibraryB>>
    /\ platformSys = "Linux"
    /\ files[LibraryA.artifact.path] = NoFile
    /\ files[LibraryB.artifact.path] # NoFile
    /\ launch_cmd # <<>>
    /\ ClasspathEntries(launch_cmd) = <<LibraryB.artifact.path, JarPath>>

\* the extra flags of the enabled toggles, in the order the builder tests them
ExtraFlagOf(cheat) == <<"-Dnova." \o cheat \o "=true">>

ExtraFlags == {ExtraFlagOf(c) : c \in {"killaura", "speed", "fly"}}

EnabledFlags ==
    SelectSeq(<<"killaura", "speed", "fly">>, LAMBDA c : cheats[c])

\* C20: a non-empty plan is the runtime executable, the runtime arguments, one
\* extra flag per enabled toggle and none for a disabled one, the classpath
\* flag with the classpath, the main class, and then the program arguments.
C20_PlanOrder ==
    (PlanReturned /\ launch_cmd # <<>>) =>
        LET cp == ClasspathFlagAt(launch_cmd)
            k == Len(EnabledFlags)
        IN  /\ launch_cmd[1] \in {<<"java">>, <<LocalJavaPath>>}
            /\ cp - k > 3
            /\ launch_cmd[2] = <<"-Xmx", RamGb, "G">>
            /\ launch_cmd[3] = <<"-Djava.library.path=", NativesDir>>
            /\ \A i \in 2..(cp - k - 1) : launch_cmd[i] \notin ExtraFlags
            /\ \A j \in 1..k : launch_cmd[cp - k - 1 + j] = ExtraFlagOf(EnabledFlags[j])
            /\ launch_cmd[cp] = <<"-cp">>
            /\ ClasspathEntries(launch_cmd)[Len(ClasspathEntries(launch_cmd))] = JarPath
            /\ launch_cmd[cp + 2] = <<versionData.mainClass>>
            /\ Len(launch_cmd) > cp + 2
            /\ \A i \in (cp + 3)..Len(launch_cmd) : launch_cmd[i] \notin ExtraFlags
            /\ launch_cmd[cp + 3] = <<"--username">>

\* a plan with two of the three toggles enabled, on the platform whose
\* runtime arguments are extended by the builder
C20_Witness ==
    /\ PlanReturned
    /\ launch_cmd # <<>>
    /\ platformSys = "Darwin"
    /\ cheats = [c \in {"killaura", "speed", "fly"} |-> c # "speed"]
    /\ \E i \in 1..Len(launch_cmd) :
          /\ launch_cmd[i] = <<"-Dorg.lwjgl.opengl.Display.allowSoftwareOpenGL=true">>
          /\ launch_cmd[i + 1] = <<"-Dnova.killaura=true">>
          /\ launch_cmd[i + 2] = <<"-Dnova.fly=true">>
          /\ launch_cmd[i + 3] = <<"-cp">>

(***************************************************************************)
(* Properties of the substitution of placeholders (checked under PlanSpec). *)
(***************************************************************************)
\* the program arguments of a plan: what follows the main class
ProgramArguments(cmd) == SubSeq(cmd, ClasspathFlagAt(cmd) + 3, Len(cmd))

\* the keys of a substitution table
TableKeys(table) == {table[j][1] : j \in 1..Len(table)}

\* the value a table gives for a key
TableValue(table, key) == table[CHOOSE j \in 1..Len(table) : table[j][1] = key][2]

\* a token in which every occurrence of every key stands replaced by the
\* key's value, and every other piece is kept
Substituted(token, table) ==
    [k \in 1..Len(token) |-> IF token[k] \in TableKeys(table)
                              THEN TableValue(table, token[k]) ELSE token[k]]

\* the program arguments of the plan are those of the document, each with
\* every placeholder replaced by its value
ProgramArgumentsSubstituted ==
    LET args == GameArguments(versionData, CurrentOs(platformSys))
        table == Replacements(versionData, selected_version, username_input)
        out == ProgramArguments(launch_cmd)
    IN  /\ Len(out) = Len(args)
        /\ \A k \in 1..Len(args) : out[k] = Substituted(args[k], table)

\* C21: every program-argument token of a plan has every placeholder key of
\* the table replaced by its value at every occurrence, whether the token is
\* one placeholder, holds several, or has literal text around one.
C21_EveryPlaceholderReplaced ==
    (PlanReturned /\ launch_cmd # <<>>) => ProgramArgumentsSubstituted

\* the same for a username that holds the text of no key of the table
C21_ReplacedForPlainUsernames ==
    (PlanReturned /\ launch_cmd # <<>>
        /\ username_input \notin TableKeys(Replacements(versionData, selected_version, "")))
        => ProgramArgumentsSubstituted

\* a plan whose program arguments came from the templated list with the
\* token of two placeholders and the token of one placeholder twice
C21_PlainWitness ==
    /\ PlanReturned
    /\ launch_cmd # <<>>
    /\ versionData.hasGame
    /\ versionData.game = PlanGame
    /\ username_input = "Steve"
    /\ \E i \in 1..Len(launch_cmd) :
          /\ launch_cmd[i] = <<"--id=", generate_offline_uuid("Steve"), "/", "Steve">>
          /\ launch_cmd[i + 1] = <<VersionId, "-", VersionId>>

(***************************************************************************)
(* Properties of the runtime resolution (checked under PlanSpec).          *)
(***************************************************************************)
\* the managed installation is present and itself reports a major version
\* of at least 21
ManagedRuntimePasses == javaDir = "exe" /\ localMajor >= REQUIRED_JAVA

\* the ambient runtime reports a major version of at least 21
AmbientRuntimePasses == systemJava.found /\ systemJava.major >= REQUIRED_JAVA

\* the inputs of the plan other than the runtime are all usable
PlanInputsUsable ==
    /\ jsonFile = "valid"
    /\ versionData.mainClass # ""
    /\ files[JarPath] # NoFile
    /\ (versionData.hasGame \/ versionData.hasLegacy)

\* C22: the plan names the managed executable only if the managed
\* installation is present and itself passes the version check; otherwise it
\* names the ambient runtime if that passes, and there is no plan if neither
\* passes.
C22_ManagedRuntimeOnlyIfItPasses ==
    (PlanReturned /\ PlanInputsUsable) =>
        /\ ManagedRuntimePasses
              => (launch_cmd # <<>> /\ launch_cmd[1] = <<LocalJavaPath>>)
        /\ (~ManagedRuntimePasses /\ AmbientRuntimePasses)
              => (launch_cmd # <<>> /\ launch_cmd[1] = <<"java">>)
        /\ (~ManagedRuntimePasses /\ ~AmbientRuntimePasses) => launch_cmd = <<>>

\* the part of C22 the builder keeps: a plan names the managed executable
\* only if it is present, and there is no plan when neither runtime passes
C22_NoPlanWithoutRuntime ==
    (PlanReturned /\ PlanInputsUsable) =>
        /\ (launch_cmd # <<>> /\ launch_cmd[1] = <<LocalJavaPath>>) => javaDir = "exe"
        /\ ManagedRuntimePasses
              => (launch_cmd # <<>> /\ launch_cmd[1] = <<LocalJavaPath>>)
        /\ (~ManagedRuntimePasses /\ ~AmbientRuntimePasses) => launch_cmd = <<>>

(***************************************************************************)
(* Properties of the runtime provisioner (checked under HelperSpec).       *)
(***************************************************************************)
\* a helper was called and what its last call returned
Called(fn) == probe.fn = fn /\ Len(probeResults) > 0

LastResult == probeResults[Len(probeResults)]

\* the managed executable exists and its version output parses
ManagedVersionParses == javaDir = "exe" /\ localMajor > 0

\* C23: is_java_installed(min) is (managed major >= min), without consulting
\* the ambient runtime, when the managed executable exists and its version
\* parses; otherwise it is (ambient major >= min), and false when the
\* ambient command is missing or its version does not parse.
C23_ManagedFirstThenAmbient ==
    Called("is_java_installed") =>
        \A i \in 1..Len(probeResults) :
            IF ManagedVersionParses
            THEN /\ probeResults[i].value = (localMajor >= probe.min)
                 /\ probeResults[i].runs = <<"managed">>
            ELSE /\ probeResults[i].value
                      = (systemJava.found /\ systemJava.major > 0
                            /\ systemJava.major >= probe.min)
                 /\ probeResults[i].runs[Len(probeResults[i].runs)] = "ambient"

\* the managed executable reports 21 and the ambient one 17: the answer for
\* a minimum of 21 is yes, from the managed executable alone
C23_Witness ==
    /\ Called("is_java_installed")
    /\ probe.min = 21
    /\ javaDir = "exe" /\ localMajor = 21
    /\ systemJava = [found |-> TRUE, major |-> 17]
    /\ LastResult = [value |-> TRUE, runs |-> <<"managed">>]

\* the managed executable exists but its version does not parse and there is
\* no ambient command: the answer is no
C23_FallbackWitness ==
    /\ Called("is_java_installed")
    /\ javaDir = "exe" /\ localMajor = 0
    /\ systemJava = [found |-> FALSE, major |-> 0]
    /\ LastResult = [value |-> FALSE, runs |-> <<"managed", "ambient">>]

\* C24: without an available runtime and with a platform/architecture pair
\* outside the distribution table, install_java_if_needed returns failure,
\* downloads nothing and leaves the managed runtime directory as it was;
\* with an available runtime it returns success, downloads nothing and
\* changes no file.
C24_NoInstallWhenUnsupportedOrAvailable ==
    [][(probe.fn = "install_java_if_needed" /\ probeResults' # probeResults) =>
          LET available == is_java_installed(javaDir, localMajor, systemJava, REQUIRED_JAVA)
              res == probeResults'[Len(probeResults')]
          IN  /\ (~available /\ ~JavaUrlKnown(platformSys, platformArch))
                    => /\ ~res.ok
                       /\ res.requests = 0
                       /\ UNCHANGED <<javaDir, localMajor, diskVars>>
              /\ available
                    => /\ res.ok
                       /\ res.requests = 0
                       /\ UNCHANGED <<javaDir, localMajor, diskVars>>]_vars

\* the call failed on the 32-bit host without a runtime, and nothing was
\* downloaded or installed
C24_Witness ==
    /\ Called("install_java_if_needed")
    /\ platformArch = "32bit"
    /\ systemJava = [found |-> FALSE, major |-> 0]
    /\ javaDir = "absent"
    /\ LastResult = [ok |-> FALSE, requests |-> 0]

(***************************************************************************)
(* Properties of the content verifier (checked under HelperSpec).          *)
(***************************************************************************)
\* the file at the verified path exists and can be read
VerifiedFileReadable == files[probe.path] \notin {NoFile, Unreadable}

\* C25: verify_file(path, D) is false when no file exists at path or the file
\* cannot be read, true when the whole content hashes to D, the same on
\* every repeated call, and it leaves the file as it was.
C25_VerifyIsPureAndExact ==
    /\ [](Called("verify_file") =>
             /\ ~VerifiedFileReadable => ~LastResult.value
             /\ (VerifiedFileReadable /\ Sha1Hex(files[probe.path]) = probe.expected)
                    => LastResult.value
             /\ \A i \in 1..Len(probeResults) : probeResults[i] = LastResult)
    /\ [][probe.fn = "verify_file" => UNCHANGED diskVars]_vars

\* the file holding the published bytes verified twice against their digest
C25_Witness ==
    /\ Called("verify_file")
    /\ Len(probeResults) = 2
    /\ files[probe.path] = "client-bytes"
    /\ probe.expected = Sha1Hex("client-bytes")
    /\ LastResult.value

\* an unreadable file was verified: the answer is no
C25_UnreadableWitness ==
    /\ Called("verify_file")
    /\ files[probe.path] = Unreadable
    /\ ~LastResult.value

\* C26: the comparison normalizes both sides to lowercase hex: a file whose
\* content hashes to D verifies against an expected digest that spells D
\* with uppercase hex digits.
C26_UppercaseDigestVerifies ==
    (Called("verify_file") /\ VerifiedFileReadable
        /\ probe.expected = UpperSha1Hex(files[probe.path]))
        => LastResult.value

(***************************************************************************)
(* Properties of the options rewrite (checked under HelperSpec).           *)
(***************************************************************************)
\* the key and the value of a line: the text before and after the first colon
LineIsWellFormed(line) == \E k \in 1..Len(Strip(line)) : Strip(line)[k] = ":"

LineKey(line) == SplitColon(Strip(line))[1]

LineValue(line) == SplitColon(Strip(line))[2]

\* the value a file gives to a key: that of the last well-formed line of the key
FileValue(lines, key) ==
    LET last == CHOOSE i \in 1..Len(lines) :
                    /\ LineIsWellFormed(lines[i]) /\ LineKey(lines[i]) = key
                    /\ \A j \in (i + 1)..Len(lines) :
                           ~(LineIsWellFormed(lines[j]) /\ LineKey(lines[j]) = key)
    IN  LineValue(lines[last])

FileKeys(lines) ==
    {LineKey(lines[i]) : i \in {j \in 1..Len(lines) : LineIsWellFormed(lines[j])}}

\* the file written by the call: the two keys have their fixed values, every
\* other key of a well-formed line of the file found has its value, on one
\* line, and there is no other line
OptionsRewritten(before, after) ==
    /\ after.exists
    /\ \A i \in 1..Len(after.lines) : LineIsWellFormed(after.lines[i])
    /\ \A i, j \in 1..Len(after.lines) :
          LineKey(after.lines[i]) = LineKey(after.lines[j]) => i = j
    /\ FileKeys(after.lines) = FileKeys(before.lines) \cup {"maxFps", "enableVsync"}
    /\ FileValue(after.lines, "maxFps") = TARGET_FPS
    /\ FileValue(after.lines, "enableVsync") = "false"
    /\ \A key \in FileKeys(before.lines) \ {"maxFps", "enableVsync"} :
          FileValue(after.lines, key) = FileValue(before.lines, key)

\* C27: modify_options_txt rewrites options.txt so that maxFps has the target
\* value and enableVsync is false, every other key of a well-formed line
\* keeps its value, lines without a colon are dropped, and nothing is
\* raised, also for a malformed or unreadable file.
C27_OptionsRewriteKeepsOtherKeys ==
    (Called("modify_options_txt") /\ LastResult.outcome.write = "written") =>
        /\ ~LastResult.raised
        /\ OptionsRewritten(LastResult.before, optionsTxt)

\* the same for the calls in which every line of the file found was read
C27_KeepsOtherKeysWhenRead ==
    (Called("modify_options_txt") /\ LastResult.outcome.write = "written"
        /\ LastResult.outcome.read = Len(LastResult.before.lines)) =>
        /\ ~LastResult.raised
        /\ OptionsRewritten(LastResult.before, optionsTxt)

\* a file with a line without a colon, a key the method sets and a value
\* holding a colon was read in full and rewritten
C27_ReadWitness ==
    /\ Called("modify_options_txt")
    /\ LastResult.outcome = [read |-> 3, write |-> "written", bytes |-> 0]
    /\ LastResult.before.lines = << <<"garbage", "\n">>, <<"maxFps", ":", "120", "\n">>,
                                    <<"lastServer", ":", "host", ":", "25565", " ", "\n">> >>
    /\ optionsTxt.lines = << <<"maxFps", ":", TARGET_FPS, "\n">>,
                             <<"lastServer", ":", "host:25565", "\n">>,
                             <<"enableVsync", ":", "false", "\n">> >>

(***************************************************************************)
(* Properties of the identity derivation (checked under HelperSpec).       *)
(***************************************************************************)
\* the positions of the dashes in the 8-4-4-4-12 layout
DashPositions == {9, 14, 19, 24}

\* 36 characters: a dash at each dash position, and the 32 digits in their
\* order at the other positions
Layout8_4_4_4_12(digits) ==
    [i \in 1..36 |-> IF i \in DashPositions THEN "-"
                     ELSE digits[i - Cardinality({d \in DashPositions : d < i})]]

\* C28: generate_offline_uuid depends on the username alone, and its output
\* is the 32 hex digits of the digest of "OfflinePlayer:" followed by the
\* username, in their order, split 8-4-4-4-12 by four dashes.
C28_OfflineUuidLayout ==
    Called("generate_offline_uuid") =>
        \A i \in 1..Len(probeResults) :
            probeResults[i].value
                = Concat(Layout8_4_4_4_12(Md5Hex("OfflinePlayer:" \o probe.username)))

\* the identifier of Steve derived twice, with a checkbox set
C28_Witness ==
    /\ Called("generate_offline_uuid")
    /\ probe.username = "Steve"
    /\ cheats["fly"]
    /\ Len(probeResults) = 2
    /\ probeResults[1] = probeResults[2]

(***************************************************************************)
(* Properties of the native bundles (checked under Spec).                  *)
(***************************************************************************)
\* the directory entries of a bundle
DirectoryMembers(lib) == {m.filename : m \in {x \in lib.members : x.is_dir}}

\* the bundles of the applicable libraries that have one for the platform
NativeLibraries == {i \in AllLibraries : NativesApply(VersionDoc.libraries[i])}

\* no directory entry is ever unpacked, and a bundle that did not verify when
\* its library was processed is gone, or is what a download that raised left,
\* and nothing of it was unpacked
OnlyVerifiedRegularFilesUnpacked ==
    /\ [](\A i \in AllLibraries :
             DirectoryMembers(VersionDoc.libraries[i]) \cap unpacked = {})
    /\ [][\A i \in NativeLibraries :
             (pc = "download" /\ dlPhase = "libs" /\ libIndex = i
              /\ ~verify_file(files', VersionDoc.libraries[i].nativePath,
                              VersionDoc.libraries[i].nativeSha1))
                => /\ unpacked' = unpacked
                   /\ files'[VersionDoc.libraries[i].nativePath]
                         \in {NoFile, "truncated"}]_vars

\* C29: after an acquisition run in which the bundle of an applicable library
\* is present and verified, downloaded in the run or cached before it, every
\* regular-file member of the bundle has been unpacked and no directory
\* entry has; a bundle that fails verification is deleted and not unpacked.
C29_VerifiedBundleIsUnpacked ==
    /\ [](DownloadReturned(TRUE) =>
             \A i \in NativeLibraries :
                 Verified(VersionDoc.libraries[i].nativePath)
                     => RegularMembers(VersionDoc.libraries[i]) \subseteq unpacked)
    /\ OnlyVerifiedRegularFilesUnpacked

\* the part of C29 that does not depend on the extraction of the members
C29_OnlyVerifiedRegularFiles == OnlyVerifiedRegularFilesUnpacked

\* a run that found the bundle cached and verified, fetched nothing for it and
\* returned success, with a member of the bundle not unpacked
C29_CachedBundleNotUnpacked ==
    /\ DownloadReturned(TRUE)
    /\ \E i \in NativeLibraries :
          /\ Verified(VersionDoc.libraries[i].nativePath)
          /\ VersionDoc.libraries[i].nativePath \notin fetched
          /\ ~(RegularMembers(VersionDoc.libraries[i]) \subseteq unpacked)

(***************************************************************************)
(* Properties of the argument forms (checked under PlanSpec).              *)
(***************************************************************************)
\* what one entry of a templated list contributes: a literal itself, a
\* conditional entry its values if its rules evaluate to true
EntryTokens(arg, current_os) ==
    IF arg.isStr THEN <<arg.token>>
    ELSE IF evaluate_rules(TRUE, arg.rules, current_os) THEN arg.value
    ELSE <<>>

RECURSIVE TemplatedTokens(_, _)
TemplatedTokens(entries, current_os) ==
    IF entries = <<>> THEN <<>>
    ELSE EntryTokens(Head(entries), current_os) \o TemplatedTokens(Tail(entries), current_os)

\* the maximal runs of non-whitespace pieces of a text, in order
RunStarts(text) ==
    {i \in 1..Len(text) : text[i] \notin Whitespace /\ (i = 1 \/ text[i - 1] \in Whitespace)}

RunEnd(text, s) ==
    CHOOSE e \in s..Len(text) :
        /\ \A j \in s..e : text[j] \notin Whitespace
        /\ e = Len(text) \/ text[e + 1] \in Whitespace

WhitespaceRuns(text) ==
    [k \in 1..Cardinality(RunStarts(text)) |->
        LET s == CHOOSE x \in RunStarts(text) :
                     Cardinality({y \in RunStarts(text) : y < x}) = k - 1
        IN  SubSeq(text, s, RunEnd(text, s))]

\* the runtime arguments of a plan between the two fixed ones and the extra
\* flags of the toggles
RuntimeArguments(cmd) ==
    SubSeq(cmd, 4, ClasspathFlagAt(cmd) - Len(EnabledFlags) - 1)

\* the flags the builder may append on the platform that needs them
PlatformFlags ==
    { <<"-XstartOnFirstThread">>,
      <<"-Dorg.lwjgl.opengl.Display.allowSoftwareOpenGL=true">> }

\* the runtime arguments are the base list, followed by platform flags only,
\* and by none of them off that platform
RuntimeArgumentsStartFrom(base) ==
    LET args == RuntimeArguments(launch_cmd)
    IN  /\ Len(args) >= Len(base)
        /\ SubSeq(args, 1, Len(base)) = base
        /\ \A i \in (Len(base) + 1)..Len(args) : args[i] \in PlatformFlags
        /\ platformSys # "Darwin" => Len(args) = Len(base)

\* C30: a templated runtime-argument list, when the metadata has one, is
\* used, literals verbatim and conditional entries iff their rules evaluate
\* to true; when the metadata has only the legacy string, the runtime
\* arguments are the fixed default set and the program arguments are the
\* legacy string split on whitespace (each then substituted).
C30_ArgumentFallback ==
    (PlanReturned /\ launch_cmd # <<>>) =>
        LET current_os == CurrentOs(platformSys)
            table == Replacements(versionData, selected_version, username_input)
        IN  /\ versionData.hasJvm
                  => RuntimeArgumentsStartFrom(TemplatedTokens(versionData.jvm, current_os))
            /\ (~versionData.hasJvm /\ ~versionData.hasGame /\ versionData.hasLegacy)
                  => /\ RuntimeArgumentsStartFrom(DefaultJvmArgs)
                     /\ LET runs == WhitespaceRuns(versionData.minecraftArguments)
                        IN  ProgramArguments(launch_cmd)
                                = [k \in 1..Len(runs) |-> ReplaceAll(runs[k], table, 1)]

\* a plan built from a document that has only the legacy string
C30_Witness ==
    /\ PlanReturned
    /\ launch_cmd # <<>>
    /\ ~versionData.hasJvm /\ ~versionData.hasGame /\ versionData.hasLegacy
    /\ versionData.minecraftArguments = PlanLegacy
    /\ platformSys = "Linux"
    /\ username_input = "Steve"
    /\ RuntimeArguments(launch_cmd) = DefaultJvmArgs
    /\ ProgramArguments(launch_cmd)
          = << <<"--username">>, <<"Steve">>, <<"--session=", "0">>, <<"--gameDir">>,
               <<MinecraftDir>> >>

\* a plan built from a document that has the templated list and the legacy
\* string: the templated list is used
C30_TemplatedWitness ==
    /\ PlanReturned
    /\ launch_cmd # <<>>
    /\ versionData.hasJvm /\ versionData.hasLegacy
    /\ platformSys = "Darwin"
    /\ RuntimeArguments(launch_cmd)[1] = <<"-XstartOnFirstThread">>
    /\ RuntimeArguments(launch_cmd)[2] = <<"-Djava.library.path=", "${natives_directory}">>

(***************************************************************************)
(* Properties of the order of the version index (checked under             *)
(* ManifestSpec).                                                          *)
(***************************************************************************)
SortedCategories == {"Release", "Snapshot", "Old Beta", "Old Alpha"}

\* a list of identifiers is in descending identifier order
Descending(ids) ==
    \A k \in 1..(Len(ids) - 1) : IdRank(ids[k]) >= IdRank(ids[k + 1])

\* the identifiers of the manifest's entries, in manifest order
ManifestIdList == [i \in 1..Len(manifest.entries) |-> manifest.entries[i].id]

\* the number of places an identifier has in the manifest's version list
ManifestCount(id) ==
    Cardinality({i \in 1..Len(manifest.entries) : manifest.entries[i].id = id})

\* C31: after a successful load the categories Release, Snapshot, Old Beta
\* and Old Alpha list their identifiers in descending identifier order, the
\* two latest categories keep manifest order, and a reload rebuilds the
\* lists: no identifier is listed more often than the manifest holds it.
C31_SortedAndRebuilt ==
    ManifestLoaded =>
        /\ \A c \in SortedCategories : Descending(version_categories[c])
        /\ version_categories["Latest Release"]
              = SelectSeq(ManifestIdList, LAMBDA id : id = manifest.release)
        /\ version_categories["Latest Snapshot"]
              = SelectSeq(ManifestIdList,
                          LAMBDA id : id = manifest.snapshot /\ id # manifest.release)
        /\ \A id \in ManifestIds : Cardinality(Placements(id)) <= ManifestCount(id)
        /\ versions = {manifest.entries[i].id : i \in 1..Len(manifest.entries)}

\* the manifest was loaded twice and lists two releases in ascending order:
\* the Release category holds them once each, in descending order
C31_Witness ==
    /\ manifestLoad = <<"loaded", "loaded">>
    /\ ManifestIdList = <<"1.20", "1.21">>
    /\ version_categories["Release"] = <<"1.21", "1.20">>

\* the load that has just returned is the last entry of manifestLoad
LoadReturned(result) ==
    /\ Len(manifestLoad') = Len(manifestLoad) + 1
    /\ manifestLoad'[Len(manifestLoad')] = result

\* C33: a load_version_manifest that fails at any point leaves the version
\* index and the six category lists exactly as they were before the call.
C33_FailedLoadKeepsIndex ==
    [][LoadReturned("error") => UNCHANGED <<versions, version_categories>>]_vars

(***************************************************************************)
(* Provisioning and runtime resolution in one launch request (checked      *)
(* under Spec).                                                            *)
(***************************************************************************)
\* the runtime resolution of build_launch_command finds a runtime of the
\* required major version, managed or ambient
RuntimeResolves == is_java_installed(javaDir, localMajor, systemJava, REQUIRED_JAVA)

\* C32: whenever install_java_if_needed returned success in a launch
\* request, the runtime resolution of build_launch_command in that request
\* finds a runtime of major version >= 21 (the host does not change within
\* a request, so the resolution at plan time sees this state).
C32_ProvisionedRuntimeIsFound ==
    StageResult("install_java", TRUE) => RuntimeResolves

(***************************************************************************)
(* Placeholder keys in the whole plan (checked under PlanSpec).            *)
(***************************************************************************)
\* the elements of a vector that hold the text of a key of the table
ElementsWithKey(cmd, table) ==
    {i \in 1..Len(cmd) : \E k \in 1..Len(cmd[i]) : cmd[i][k] \in TableKeys(table)}

\* C34: no element of a returned launch plan contains the text of a key of
\* the substitution table, wherever in the vector it originated: runtime
\* arguments taken from the document are substituted like program arguments.
C34_NoPlaceholderKeyInPlan ==
    (PlanReturned /\ launch_cmd # <<>>) =>
        ElementsWithKey(launch_cmd,
                        Replacements(versionData, selected_version, username_input)) = {}

\* the positions of the program arguments of the document that are exactly
\* the player-name placeholder
PlayerNamePositions ==
    LET args == GameArguments(versionData, CurrentOs(platformSys))
    IN  {k \in 1..Len(args) : args[k] = <<"${auth_player_name}">>}

\* C35: substitution does not re-expand substituted values: the
\* program-argument token "${auth_player_name}" is replaced by exactly the
\* username, also when the username is the text of another key of the table.
C35_UsernameNotReexpanded ==
    (PlanReturned /\ launch_cmd # <<>>) =>
        \A k \in PlayerNamePositions :
            /\ k <= Len(ProgramArguments(launch_cmd))
            /\ ProgramArguments(launch_cmd)[k] = <<username_input>>

(***************************************************************************)
(* Library entries that lack keys (checked under AcquireSpec).             *)
(***************************************************************************)
\* download_version_files has ended in the current request
DownloadEnded == \E i \in 1..Len(finished) : finished[i].stage = "download"

\* the loop over the libraries was entered in the current request
LibraryLoopEntered == \E j \in 1..Len(libCheck) : libCheck[j] # "none"

\* C36: download_version_files always ends by returning true or false and
\* never by raising, for any parsed document: an entry whose artifact or
\* native descriptor lacks url, sha1 or path, or whose name is missing, is
\* treated like a failed optional download, and the entries after it are
\* still processed.
C36_DownloadAlwaysReturns ==
    /\ \A i \in 1..Len(finished) :
          finished[i].stage = "download" => DOMAIN finished[i] = {"stage", "ok"}
    /\ (DownloadEnded /\ LibraryLoopEntered) =>
          /\ StageResult("download", TRUE)
          /\ \A j \in 1..Len(versionData.libraries) :
                 j \in processed \/ versionData.libraries[j].missing # {}

====
